---- MODULE Spec2Model ----
(***************************************************************************)
(* Model of the code-execution subsystem of the data-science backend:      *)
(*   backend/app/utils/shared_utils.py   CodeValidator                     *)
(*   backend/app/utils/file_handler.py   save_dataframe / get_dataframe    *)
(*   backend/app/utils/code_executor.py  CodeExecutor                      *)
(*   backend/app/services/ai_service.py  CodeExecutionService              *)
(*                                                                         *)
(* A code string is a sequence of statements.  A character of captured     *)
(* output and an open figure carry the mark of the code that produced      *)
(* them: Own for the code of the call in progress, Foreign for the code of *)
(* an earlier call, so that a result shows whose text and figures it holds.*)
(***************************************************************************)
EXTENDS Integers, Sequences, FiniteSets, TLC

VARIABLES
    pc,            \* where the request thread is: "idle", "waiting" (thread.join), "svc" (inside exec)
    cur,           \* the code of the call in progress: how much of it is left, its dataset
    abandoned,     \* the threads of timed-out calls, still running
    sys_stdout,    \* the object sys.stdout names
    sys_stderr,    \* the object sys.stderr names
    old_stdout,    \* local old_stdout of the call in progress
    old_stderr,    \* local old_stderr of the call in progress
    capture,       \* contents of the stdout capture buffer of the call in progress
    figs,          \* pyplot's process-wide list of open figures
    heap,          \* DataFrame objects: object number -> value
    dataframes,    \* file_handler._dataframes[session_id]: the (file_id, object) items in key order
    elapsed,       \* seconds the call in progress has spent in thread.join
    result,        \* what the last execute call returned
    last,          \* the last execute call: entry point, terminal path, what its code had done
    lastSaved,     \* file id -> value last given to save_dataframe (Dead: never saved)
    execution_environment, \* what code has bound in the dict CodeExecutor.execution_environment names
    routing,       \* the last call of route_request: its request, the backend's answer, its result
    previous,      \* the call of route_request before it: its request and agent
    extracted,     \* the last call of extract_code_blocks: its text and the blocks it returned
    handler,       \* the last request of a router that executes code: what it installed and ran
    site_packages, \* the modules of package_mapping that can be imported
    sanitized,     \* the last call of sanitize_code and of sanitize_code on its result
    orchestrator,  \* MultiAgentOrchestrator: capabilities, routing_cache, its last route_request
    predictor,     \* PredictionAgent: prediction_cache and its last predict
    sessions,      \* session_manager._sessions and the last call on it
    limiter,       \* RateLimiter: _buckets, the clock, its last is_allowed
    planner        \* PlanningAgent.execute_plan: the plan, the loop's position, results

\* the state of the executors and of the dataset store
execVars == << pc, cur, abandoned, sys_stdout, sys_stderr, old_stdout, old_stderr,
               capture, figs, heap, dataframes, elapsed, result, last, lastSaved,
               execution_environment >>

\* what the routers keep of their requests
webVars == << routing, previous, extracted, handler, site_packages, sanitized >>

\* the state of the orchestration agents and of the services of the routers
agentVars == << orchestrator, predictor, sessions, limiter, planner >>

vars == << execVars, webVars, agentVars >>

----------------------------------------------------------------------------
(* Bounds of the model *)

MaxCodeLen == 2
MaxAbandoned == 1
MaxFigs == 2
MaxWords == 2
MaxLines == 5
MaxPieces == 4

(* Settings read from the environment (utils/config.py, core/config.py):   *)
(* seconds of thread.join, characters of output, number of plots.  A       *)
(* character of the model stands for 1000 characters of output, so that    *)
(* ErrorOutputCap is the 1000 of stdout_capture.getvalue()[:1000].         *)
timeout == 1
max_output_size == 1
max_plot_count == 1
ErrorOutputCap == 1

Files == {"f1"}
NoFile == "None"

\* marks of characters and figures; streams: the interpreter's own stream,
\* the capture buffer of the call in progress, the buffer of an earlier call
Own == "own"
Foreign == "foreign"
Notice == "notice"
Original == "original"
Capture == "capture"
Stale == "stale"

----------------------------------------------------------------------------
(* Code strings.  A code string is a sequence of statements.  The state    *)
(* keeps of a running code how many statements are left, and whether       *)
(* validate passed it; the statements are drawn as they run.               *)

ExecStatements == {"print", "plot", "raise", "os.system('x')"}
DataStatements == {"mutate_df", "raise"}
InstallStatements == {"import sklearn", "import cv2", "os.system('x')"}
ChatStatements == {"print"}
ExitStatements == {"print", "raise", "raise SystemExit"}
NameStatements == {"x = 1", "print", "raise"}
ValueStatements ==
    {"x = 10 ** 200", "x = 'a' * 101", "x = pd.DataFrame(columns=range(11))", "raise"}

RECURSIVE SeqsUpTo(_, _)
SeqsUpTo(S, n) ==
    IF n = 0 THEN {<< >>}
    ELSE LET shorter == SeqsUpTo(S, n - 1)
         IN  shorter \cup {Append(s, x) : s \in {t \in shorter : Len(t) = n - 1}, x \in S}

Codes(S) == SeqsUpTo(S, MaxCodeLen) \ {<< >>}
ExecCodes == Codes(ExecStatements)
DataCodes == Codes(DataStatements)
InstallCodes == Codes(InstallStatements)
ChatCodes == SeqsUpTo(ChatStatements, MaxLines)
ExitCodes == Codes(ExitStatements)
NameCodes == Codes(NameStatements)
ValueCodes == Codes(ValueStatements)
AllCodes == ExecCodes \cup DataCodes \cup InstallCodes \cup ChatCodes \cup ExitCodes
                \cup NameCodes \cup ValueCodes

\* the module a statement imports ("": none)
ImportOf(stmt) ==
    CASE stmt = "import sklearn" -> "sklearn"
      [] stmt = "import cv2" -> "cv2"
      [] OTHER -> ""

----------------------------------------------------------------------------
(* CodeValidator *)

BLOCKED_PATTERNS ==
    << "os.system", "subprocess.", "eval(", "exec(", "__import__(", "open(w",
       "rmtree", "remove", "unlink", "rm -", "del /", "import socket",
       "from socket", "import requests", "from requests", "urllib.request",
       "httplib" >>

\* re.search(pattern, statement, re.IGNORECASE) for the statements of the model
StatementHas(pattern, stmt) ==
    stmt = "os.system('x')" /\ pattern = "os.system"

\* re.search(pattern, code, re.IGNORECASE)
re_search(pattern, code) ==
    \E i \in DOMAIN code : StatementHas(pattern, code[i])

RECURSIVE validate_from(_, _)
validate_from(i, code) ==
    IF i > Len(BLOCKED_PATTERNS) THEN [is_safe |-> TRUE, message |-> ""]
    ELSE IF re_search(BLOCKED_PATTERNS[i], code)
         THEN [is_safe |-> FALSE, message |-> BLOCKED_PATTERNS[i]]
         ELSE validate_from(i + 1, code)

validate_skip_first(code) == validate_from(2, code)

validate(code) == validate_from(1, code)

\* the rewrite of one statement by sanitize_code
sanitize_statement(stmt) ==
    IF stmt \in {"df = pd.read_csv('a.csv')", "df = pd.read_excel('a.xlsx')"}
    THEN "df = df  # Using pre-loaded data)"
    ELSE stmt

\* sanitize_code on a code given by its statements
sanitize_statements(code) == [i \in DOMAIN code |-> sanitize_statement(code[i])]

----------------------------------------------------------------------------
(* file_handler: the in-memory dataset store of the session *)

Min(a, b) == IF a < b THEN a ELSE b

\* a dataset is one of two values; Dead is the content of a collected object
Values == {0, 1}
Dead == -1

RECURSIVE Trim(_)
Trim(h) == IF h # << >> /\ h[Len(h)] = Dead THEN Trim(SubSeq(h, 1, Len(h) - 1)) ELSE h

\* garbage collection: an object that neither the store nor a namespace
\* refers to is freed
Collect(h, d, ws) ==
    LET live == {d[i].obj : i \in DOMAIN d} \cup {w.df : w \in ws}
    IN  Trim([o \in DOMAIN h |-> IF o \in live THEN h[o] ELSE Dead])

\* a new object holding v, in the first free place of the heap
Alloc(h, v) ==
    LET free == {o \in DOMAIN h : h[o] = Dead}
        o    == IF free = {} THEN Len(h) + 1 ELSE CHOOSE x \in free : \A y \in free : x <= y
    IN  [heap |-> IF free = {} THEN Append(h, v) ELSE [h EXCEPT ![o] = v], df |-> o]

\* position of file_id among the keys of _dataframes[session_id], 0 when absent
KeyIndex(d, file_id) ==
    IF \E i \in DOMAIN d : d[i].file_id = file_id
    THEN CHOOSE i \in DOMAIN d : d[i].file_id = file_id
    ELSE 0

\* the stored object get_dataframe finds (0: None); file_id None means the first file
stored_object(file_id) ==
    IF dataframes = << >> THEN 0
    ELSE LET fid == IF file_id = NoFile THEN dataframes[1].file_id ELSE file_id
             k   == KeyIndex(dataframes, fid)
         IN  IF k = 0 THEN 0 ELSE dataframes[k].obj

\* get_dataframe without the .copy(): hands out the stored object itself
get_dataframe_no_copy(file_id) ==
    [heap |-> heap, df |-> stored_object(file_id)]

\* get_dataframe: a new object holding a copy of the stored value (df 0: None)
get_dataframe(file_id) ==
    LET o == stored_object(file_id)
    IN  IF o = 0 THEN [heap |-> heap, df |-> 0] ELSE Alloc(heap, heap[o])

Threads == {abandoned[i] : i \in DOMAIN abandoned}

\* save_dataframe(df, session_id, file_id=file_id), df holding value v: the
\* store keeps a copy of df
save_dataframe(v, file_id) ==
    /\ pc = "idle"
    /\ LET k   == KeyIndex(dataframes, file_id)
           new == Alloc(heap, v)
           e   == [file_id |-> file_id, obj |-> new.df]
           d   == IF k = 0 THEN Append(dataframes, e) ELSE [dataframes EXCEPT ![k] = e]
       IN  /\ dataframes' = d
           /\ heap' = Collect(new.heap, d, Threads)
    /\ lastSaved' = [lastSaved EXCEPT ![file_id] = v]
    /\ UNCHANGED << webVars, agentVars, pc, cur, abandoned, sys_stdout, sys_stderr, old_stdout,
                    old_stderr, capture, figs, elapsed, result, last, execution_environment >>

----------------------------------------------------------------------------
(* Results *)

EmptyDict == [n \in {} |-> ""]
EmptySeq == << >>

NoError == [kind |-> "None", pattern |-> "", seconds |-> 0]
SecurityViolation(message) ==
    [kind |-> "Security violation", pattern |-> message, seconds |-> 0]
TimedOutError(seconds) ==
    [kind |-> "Execution timed out", pattern |-> "", seconds |-> seconds]
RuntimeError == [kind |-> "runtime", pattern |-> "", seconds |-> 0]

NoResult == [none |-> TRUE]
NoCall == [entry |-> "none", path |-> "none", ran |-> FALSE, hits |-> {},
           propagated |-> FALSE, printed |-> 0, drawn |-> 0, exited |-> FALSE,
           assigned |-> {}, dropped |-> {}]

\* the suffix "\n... (output truncated, showing first N characters)", as one character
TruncationNotice == << Notice >>

Count(s, m) == Cardinality({i \in DOMAIN s : s[i] = m})

\* when a call returns, what its code left behind is the work of an earlier call
Age(s) == [i \in DOMAIN s |-> Foreign]

----------------------------------------------------------------------------
(* Execution namespaces *)

BaseEnvironment ==
    {"pd", "pandas", "plt", "matplotlib", "np", "numpy", "sns", "seaborn",
     "scipy", "stats", "LinearRegression", "PolynomialFeatures"}

ServiceNamespace == {"pd", "np", "plt", "sns", "stats", "__builtins__"}

Private(name) == name \in {"__builtins__"}

skip_items ==
    {"pd", "pandas", "plt", "matplotlib", "np", "numpy", "sns", "seaborn",
     "scipy", "df", "__builtins__"}

WithDf(names, df) == IF df = 0 THEN names ELSE names \cup {"df"}

\* the names a code may bind
UserNames == {"x"}

\* the name a statement binds ("": none)
Binds(stmt) ==
    IF stmt \in {"x = 1", "x = 10 ** 200", "x = 'a' * 101",
                 "x = pd.DataFrame(columns=range(11))"}
    THEN "x" ELSE ""

\* the limits of _get_variable_info: the column names listed, the characters
\* of a value
ColumnCap == 10
ValueCap == 100

\* the value a statement binds: its type, and the length of its str() or
\* the number of its columns
ValueOf(stmt) ==
    CASE stmt = "x = 1" -> [type |-> "int", size |-> 1]
      [] stmt = "x = 10 ** 200" -> [type |-> "int", size |-> 2 * ValueCap + 1]
      [] stmt = "x = 'a' * 101" -> [type |-> "str", size |-> ValueCap + 1]
      [] OTHER -> [type |-> "DataFrame", size |-> ColumnCap + 1]

\* a module, class or function bound before the run, and the dataset df
LibraryValue == [type |-> "module", size |-> 0]
DatasetValue == [type |-> "DataFrame", size |-> 1]

\* namespace[name] = value
Bind(namespace, name, value) ==
    [n \in DOMAIN namespace \cup {name} |-> IF n = name THEN value ELSE namespace[n]]

\* the namespace of a run: the names bound before it and what code has bound
Namespace(prebound, user) ==
    [n \in prebound \cup DOMAIN user |->
        IF n \in DOMAIN user THEN user[n]
        ELSE IF n = "df" THEN DatasetValue ELSE LibraryValue]

NoWorker ==
    [left |-> 0, status |-> "none", df |-> 0, checked |-> FALSE, hits |-> {},
     attached |-> FALSE, ns |-> EmptyDict, assigned |-> {}, inherited |-> {},
     dropped |-> {}]

\* the patterns of BLOCKED_PATTERNS the code matches
Hits(code) ==
    {BLOCKED_PATTERNS[i] : i \in {j \in DOMAIN BLOCKED_PATTERNS :
                                      re_search(BLOCKED_PATTERNS[j], code)}}

\* a function as an explicit table of its values: the values of a function
\* constructor are otherwise computed anew at each application
Table(f) == f @@ << >>

\* validate and Hits of every code string of the model, evaluated once
Validated == Table([code \in AllCodes |-> validate(code)])
Matched == Table([code \in AllCodes |-> Hits(code)])

----------------------------------------------------------------------------
(* Running code: the thread started by execute_code, the request thread     *)
(* inside CodeExecutionService.execute, and the threads left behind by      *)
(* timed-out calls                                                          *)

\* a code that passed validate holds only statements validate passes
Runnable(w, stmt) == w.checked => validate(<< stmt >>).is_safe

\* the thread after one more statement of its code; mutate_df without a df
\* raises NameError, the import of a module that is not installed ImportError;
\* SystemExit is not an Exception: it ends the thread past the except clause
\* of execute, which records no error
AfterStatement(w, stmt) ==
    LET fails == \/ stmt = "raise"
                 \/ stmt = "mutate_df" /\ w.df = 0
                 \/ ImportOf(stmt) # "" /\ ImportOf(stmt) \notin site_packages
    IN  [w EXCEPT !.left = w.left - 1,
                  !.status = IF stmt = "raise SystemExit" THEN "exited"
                             ELSE IF fails THEN "raised"
                             ELSE IF w.left = 1 THEN "finished" ELSE "running",
                  !.ns = IF Binds(stmt) # "" /\ ~w.attached
                         THEN Bind(w.ns, Binds(stmt), ValueOf(stmt)) ELSE w.ns,
                  !.assigned = IF Binds(stmt) # "" THEN w.assigned \cup {Binds(stmt)}
                               ELSE w.assigned]

\* the dict execution_environment names after a statement of a thread that
\* runs in it
Bound(w, stmt) ==
    IF Binds(stmt) # "" /\ w.attached
    THEN Bind(execution_environment, Binds(stmt), ValueOf(stmt))
    ELSE execution_environment

\* print writes a character and a newline to the object sys.stdout names at
\* that moment
Written(stmt, mark) ==
    IF stmt = "print" /\ sys_stdout = Capture
    THEN capture \o << mark, mark >>
    ELSE capture

Drawn(stmt, mark) == IF stmt = "plot" THEN Append(figs, mark) ELSE figs

Mutated(w, stmt) ==
    IF stmt = "mutate_df" /\ w.df # 0
    THEN [heap EXCEPT ![w.df] = 1 - heap[w.df]]
    ELSE heap

\* the code of the call in progress runs its next statement
run_statement(stmt) ==
    /\ cur.status = "running"
    /\ Runnable(cur, stmt)
    /\ stmt = "plot" => Len(figs) < MaxFigs
    /\ cur' = AfterStatement(cur, stmt)
    /\ capture' = Written(stmt, Own)
    /\ figs' = Drawn(stmt, Own)
    /\ heap' = Mutated(cur, stmt)
    /\ execution_environment' = Bound(cur, stmt)
    /\ UNCHANGED << webVars, agentVars, pc, abandoned, sys_stdout, sys_stderr, old_stdout, old_stderr,
                    dataframes, elapsed, result, last, lastSaved >>

Remove(s, i) == SubSeq(s, 1, i - 1) \o SubSeq(s, i + 1, Len(s))

\* the thread of a timed-out call runs its next statement
run_abandoned(i, stmt) ==
    /\ Runnable(abandoned[i], stmt)
    /\ stmt = "plot" => Len(figs) < MaxFigs
    /\ LET w  == abandoned[i]
           w2 == AfterStatement(w, stmt)
           ab == IF w2.status = "running" THEN [abandoned EXCEPT ![i] = w2]
                 ELSE Remove(abandoned, i)
       IN  /\ abandoned' = ab
           /\ capture' = Written(stmt, Foreign)
           /\ figs' = Drawn(stmt, Foreign)
           /\ heap' = Collect(Mutated(w, stmt), dataframes,
                              {ab[j] : j \in DOMAIN ab} \cup {cur})
    /\ execution_environment' = Bound(abandoned[i], stmt)
    /\ UNCHANGED << webVars, agentVars, pc, cur, sys_stdout, sys_stderr, old_stdout, old_stderr,
                    dataframes, elapsed, result, last, lastSaved >>

----------------------------------------------------------------------------
(* CodeExecutor *)

\* _capture_plots without the cap on the number of figures
capture_plots_no_cap(fs, bad) ==
    [plots |-> SelectSeq([i \in DOMAIN fs |-> IF i \in bad THEN "" ELSE fs[i]],
                         LAMBDA x : x # ""),
     raised |-> FALSE]

\* _capture_plots without the try/except around one figure
capture_plots_no_except(fs, bad) ==
    LET n == Min(Len(fs), max_plot_count)
    IN  [plots |-> SubSeq(fs, 1, n), raised |-> \E i \in 1 .. n : i \in bad]

\* _capture_plots: the first max_plot_count open figures, those whose rendering
\* raises (bad) left out; fs is plt.get_fignums()
capture_plots(fs, bad) ==
    LET n == Min(Len(fs), max_plot_count)
    IN  [plots |-> SelectSeq([i \in 1 .. n |-> IF i \in bad THEN "" ELSE fs[i]],
                             LAMBDA x : x # ""),
         raised |-> FALSE]

\* an entry of the variables of a result: the type, the number of column
\* names listed, the length of the value string
Entry(type, columns, value) == [type |-> type, columns |-> columns, value |-> value]

\* the entry _get_variable_info makes for a value: ten columns of a DataFrame,
\* str(value) of an int, float or bool, a hundred characters and "..." of a str
variable_info(value) ==
    CASE value.type = "DataFrame" -> Entry("DataFrame", Min(value.size, ColumnCap), 0)
      [] value.type = "int" -> Entry("int", 0, value.size)
      [] value.type = "str" ->
            Entry("str", 0, IF value.size > ValueCap THEN ValueCap + 3 ELSE value.size)
      [] OTHER -> Entry(value.type, 0, 0)

\* the entry of the except clause: "Unable to display"
UnableToDisplay(value) == Entry(value.type, 0, 17)

\* _get_variable_info: a summary per name of the namespace that is neither
\* private nor in skip_items; bad are the names whose inspection raises
get_variable_info(namespace, bad) ==
    [n \in {m \in DOMAIN namespace : ~Private(m) /\ m \notin skip_items} |->
        IF n \in bad THEN UnableToDisplay(namespace[n]) ELSE variable_info(namespace[n])]

\* _setup_base_environment with self.execution_environment.update({...}) in
\* place of the assignment of a new dict
setup_base_environment_update(environment) ==
    [environment |-> environment, new_dict |-> FALSE]

\* _setup_base_environment: self.execution_environment names a new dict that
\* holds the library bindings only
setup_base_environment(environment) ==
    [environment |-> EmptyDict, new_dict |-> TRUE]

\* the threads of timed-out calls when execution_environment names a new
\* dict: each keeps the dict its exec was given
Detached(ws) ==
    [i \in DOMAIN ws |->
        IF ws[i].attached
        THEN [ws[i] EXCEPT !.attached = FALSE, !.ns = execution_environment]
        ELSE ws[i]]

\* the result of the early return on a validation failure
rejected_result(message) ==
    [success |-> FALSE, output |-> EmptySeq, error |-> SecurityViolation(message),
     plots |-> EmptySeq, variables |-> EmptyDict]

\* execute_code up to thread.join: validation, sanitize_code, setup_environment,
\* the swap of the streams, plt.close('all'), thread.start
execute_code(code, file_id) ==
    /\ pc = "idle"
    /\ LET v == Validated[code]
       IN  IF ~v.is_safe
           THEN /\ result' = rejected_result(v.message)
                /\ last' = [NoCall EXCEPT !.entry = "execute_code", !.path = "Rejected",
                                          !.hits = Matched[code]]
                /\ UNCHANGED << pc, cur, sys_stdout, sys_stderr, old_stdout,
                                old_stderr, capture, figs, heap, elapsed,
                                abandoned, execution_environment >>
           ELSE LET got == get_dataframe(file_id)
                    base == setup_base_environment(execution_environment)
                IN  /\ heap' = got.heap
                    /\ execution_environment' = base.environment
                    /\ abandoned' = IF base.new_dict THEN Detached(abandoned)
                                    ELSE abandoned
                    /\ cur' = [left |-> Len(sanitize_statements(code)),
                               status |-> IF code = << >> THEN "finished" ELSE "running",
                               df |-> got.df, checked |-> TRUE, hits |-> Matched[code],
                               attached |-> TRUE, ns |-> EmptyDict, assigned |-> {},
                               inherited |-> DOMAIN base.environment,
                               dropped |-> DOMAIN execution_environment
                                             \ DOMAIN base.environment]
                    /\ old_stdout' = sys_stdout
                    /\ old_stderr' = sys_stderr
                    /\ capture' = EmptySeq
                    /\ figs' = EmptySeq
                    /\ sys_stdout' = Capture
                    /\ sys_stderr' = Capture
                    /\ elapsed' = 0
                    /\ pc' = "waiting"
                    /\ result' = NoResult
                    /\ last' = NoCall
    /\ UNCHANGED << dataframes, lastSaved >>

\* a second passes while the request thread is blocked in thread.join(timeout)
Tick ==
    /\ pc = "waiting"
    /\ elapsed < timeout
    /\ elapsed' = elapsed + 1
    /\ UNCHANGED << webVars, agentVars, pc, cur, abandoned, sys_stdout, sys_stderr, old_stdout,
                    old_stderr, capture, figs, heap, dataframes, result,
                    last, lastSaved, execution_environment >>

\* the finally clause of execute_code without the restore of the streams
restore_streams_missing(saved, now) == Stale

\* the finally clause of execute_code: sys.stdout = old_stdout
restore_streams(saved, now) == saved

\* the result of the timeout branch when it carries no limit
timed_out_result_no_limit ==
    [success |-> FALSE, output |-> EmptySeq, error |-> TimedOutError(0),
     plots |-> EmptySeq, variables |-> EmptyDict]

\* the result returned when execution_complete is not set after the join
timed_out_result ==
    [success |-> FALSE, output |-> EmptySeq, error |-> TimedOutError(timeout),
     plots |-> EmptySeq, variables |-> EmptyDict]

\* execute_code from the return of thread.join to its own return
join_return ==
    /\ pc = "waiting"
    /\ cur.status # "running" \/ elapsed = timeout
    /\ LET track == [NoCall EXCEPT !.entry = "execute_code", !.ran = TRUE,
                                   !.hits = cur.hits,
                                   !.printed = Count(capture, Own),
                                   !.drawn = Count(figs, Own),
                                   !.exited = (cur.status = "exited"),
                                   !.assigned = cur.assigned,
                                   !.dropped = cur.dropped]
       IN  \/ /\ cur.status = "running"
              /\ Len(abandoned) < MaxAbandoned
              /\ result' = timed_out_result
              /\ last' = [track EXCEPT !.path = "TimedOut"]
              /\ abandoned' = Append(abandoned, cur)
              /\ figs' = Age(figs)
           \/ /\ cur.status = "raised"
              /\ \E bad \in SUBSET (DOMAIN figs) :
                   LET cp == capture_plots(figs, bad)
                   IN  IF cp.raised
                       THEN /\ result' = NoResult
                            /\ last' = [track EXCEPT !.path = "Failed", !.propagated = TRUE]
                            /\ figs' = Age(figs)
                       ELSE /\ result' = [success |-> FALSE,
                                          output |-> SubSeq(capture, 1,
                                                       Min(Len(capture), ErrorOutputCap)),
                                          error |-> RuntimeError,
                                          plots |-> cp.plots,
                                          variables |-> EmptyDict]
                            /\ last' = [track EXCEPT !.path = "Failed"]
                            /\ figs' = EmptySeq
              /\ abandoned' = abandoned
           \/ /\ cur.status \in {"finished", "exited"}
              /\ \E bad \in SUBSET (DOMAIN figs) :
                 \E badvars \in SUBSET (DOMAIN execution_environment) :
                   LET cp  == capture_plots(figs, bad)
                       out == IF Len(capture) > max_output_size
                              THEN SubSeq(capture, 1, max_output_size) \o TruncationNotice
                              ELSE capture
                       names == Namespace(WithDf(BaseEnvironment, cur.df)
                                            \cup {"__builtins__"},
                                          execution_environment)
                   IN  IF cp.raised
                       \* the except clause runs _capture_plots again, on the same figures
                       THEN /\ result' = NoResult
                            /\ last' = [track EXCEPT !.path = "Failed", !.propagated = TRUE]
                            /\ figs' = Age(figs)
                       ELSE /\ result' = [success |-> TRUE, output |-> out,
                                          error |-> NoError, plots |-> cp.plots,
                                          variables |-> get_variable_info(names, badvars)]
                            /\ last' = [track EXCEPT !.path = "Completed"]
                            /\ figs' = EmptySeq
              /\ abandoned' = abandoned
    /\ sys_stdout' = restore_streams(old_stdout, sys_stdout)
    /\ sys_stderr' = restore_streams(old_stderr, sys_stderr)
    /\ pc' = "idle"
    /\ cur' = NoWorker
    /\ capture' = EmptySeq
    /\ old_stdout' = Original
    /\ old_stderr' = Original
    /\ elapsed' = 0
    /\ heap' = Collect(heap, dataframes, {abandoned'[j] : j \in DOMAIN abandoned'})
    /\ UNCHANGED << webVars, agentVars, dataframes, lastSaved, execution_environment >>

----------------------------------------------------------------------------
(* CodeExecutionService *)

service_skip == {"pd", "np", "plt", "sns", "stats", "df"}

\* CodeExecutionService._get_variable_info: every column of a DataFrame,
\* str(value)[:100] of an int, float, str or bool
service_variable_info(value) ==
    CASE value.type = "DataFrame" -> Entry("DataFrame", value.size, 0)
      [] value.type \in {"int", "str"} -> Entry(value.type, 0, Min(value.size, ValueCap))
      [] OTHER -> Entry("None", 0, 0)

\* the loop over namespace.items() of execute: the names that are not private
\* and not pre-bound; a name whose inspection raises (bad), or whose value is
\* of a type _get_variable_info has no summary for, is passed over
service_variables(namespace, bad) ==
    [n \in {m \in DOMAIN namespace :
               /\ m \notin bad /\ ~Private(m) /\ m \notin service_skip
               /\ namespace[m].type \in {"DataFrame", "int", "str"}} |->
        service_variable_info(namespace[n])]

\* execute up to the exec of the code: no validation; the dataset is loaded
\* only for a file_id; redirect_stdout / redirect_stderr swap the streams
service_execute(code, file_id) ==
    /\ pc = "idle"
    /\ LET got == IF file_id # NoFile THEN get_dataframe(file_id)
                  ELSE [heap |-> heap, df |-> 0]
       IN  /\ heap' = got.heap
           /\ cur' = [left |-> Len(code),
                      status |-> IF code = << >> THEN "finished" ELSE "running",
                      df |-> got.df,
                      checked |-> FALSE, hits |-> Matched[code],
                      attached |-> FALSE, ns |-> EmptyDict, assigned |-> {},
                      inherited |-> {}, dropped |-> {}]
    /\ old_stdout' = sys_stdout
    /\ old_stderr' = sys_stderr
    /\ sys_stdout' = Capture
    /\ sys_stderr' = Capture
    /\ capture' = EmptySeq
    /\ pc' = "svc"
    /\ elapsed' = 0
    /\ result' = NoResult
    /\ last' = NoCall
    /\ UNCHANGED << abandoned, figs, dataframes, lastSaved, execution_environment >>

\* a second passes while the request thread is inside exec(code, namespace):
\* the timeout argument of execute is read at its first line and used nowhere,
\* so nothing ends the wait (the model stops the clock one second past it)
service_wait ==
    /\ pc = "svc"
    /\ cur.status = "running"
    /\ elapsed <= timeout
    /\ elapsed' = elapsed + 1
    /\ UNCHANGED << webVars, agentVars, pc, cur, abandoned, sys_stdout, sys_stderr, old_stdout,
                    old_stderr, capture, figs, heap, dataframes, result,
                    last, lastSaved, execution_environment >>

\* execute from the end of the exec to its return
service_return ==
    /\ pc = "svc"
    /\ cur.status # "running"
    /\ LET track == [NoCall EXCEPT !.entry = "service", !.ran = TRUE,
                                   !.hits = cur.hits,
                                   !.printed = Count(capture, Own),
                                   !.drawn = Count(figs, Own),
                                   !.assigned = cur.assigned]
           failed == [success |-> FALSE, output |-> capture, error |-> RuntimeError,
                      plots |-> EmptySeq, variables |-> EmptyDict]
       IN  \/ /\ cur.status = "raised"
              /\ result' = failed
              /\ last' = [track EXCEPT !.path = "Failed"]
              /\ figs' = Age(figs)
           \/ /\ cur.status = "finished"
              /\ \E bad \in SUBSET (DOMAIN figs) :
                 \E badvars \in SUBSET (DOMAIN cur.ns) :
                   IF bad # {}
                   \* fig.savefig raises: the figures before it are closed already
                   THEN /\ result' = failed
                        /\ last' = [track EXCEPT !.path = "Failed"]
                        /\ figs' = Age(SubSeq(figs, CHOOSE i \in bad : \A j \in bad : i <= j,
                                              Len(figs)))
                   ELSE /\ result' =
                             [success |-> TRUE,
                              output |-> SubSeq(capture, 1, Min(Len(capture), max_output_size)),
                              error |-> NoError,
                              plots |-> SubSeq(figs, 1, Min(Len(figs), max_plot_count)),
                              variables |->
                                 service_variables(
                                    Namespace(WithDf(ServiceNamespace, cur.df), cur.ns),
                                    badvars)]
                        /\ last' = [track EXCEPT !.path = "Completed"]
                        /\ figs' = EmptySeq
    /\ sys_stdout' = old_stdout
    /\ sys_stderr' = old_stderr
    /\ pc' = "idle"
    /\ cur' = NoWorker
    /\ capture' = EmptySeq
    /\ old_stdout' = Original
    /\ old_stderr' = Original
    /\ elapsed' = 0
    /\ heap' = Collect(heap, dataframes, Threads)
    /\ UNCHANGED << webVars, agentVars, abandoned, dataframes, lastSaved, execution_environment >>

----------------------------------------------------------------------------
(* Request texts.  A text is the sequence of its characters, so that        *)
(* str.lower, str.strip and the `in` of two strings are computed.           *)

RequestWords ==
    { << "S", "Q", "L" >>,
      << "p", "r", "e", "d", "i", "c", "t" >>,
      << "c", "h", "i", "-", "s", "q", "u", "a", "r", "e" >>,
      << "c", "l", "e", "a", "n" >> }

RECURSIVE TextsOf(_)
TextsOf(n) ==
    IF n = 1 THEN RequestWords
    ELSE {t \o << " " >> \o w : t \in TextsOf(n - 1), w \in RequestWords}

\* the empty text and a text of white space only
BlankTexts == {<< >>, << " " >>}

RequestTexts == BlankTexts \cup UNION {TextsOf(n) : n \in 1 .. MaxWords}

UpperCase ==
    [c \in {"A", "B", "C", "D", "E", "F", "G", "H", "I", "J", "K", "L", "M",
            "N", "O", "P", "Q", "R", "S", "T", "U", "V", "W", "X", "Y", "Z"} |->
        CASE c = "A" -> "a" [] c = "B" -> "b" [] c = "C" -> "c" [] c = "D" -> "d"
          [] c = "E" -> "e" [] c = "F" -> "f" [] c = "G" -> "g" [] c = "H" -> "h"
          [] c = "I" -> "i" [] c = "J" -> "j" [] c = "K" -> "k" [] c = "L" -> "l"
          [] c = "M" -> "m" [] c = "N" -> "n" [] c = "O" -> "o" [] c = "P" -> "p"
          [] c = "Q" -> "q" [] c = "R" -> "r" [] c = "S" -> "s" [] c = "T" -> "t"
          [] c = "U" -> "u" [] c = "V" -> "v" [] c = "W" -> "w" [] c = "X" -> "x"
          [] c = "Y" -> "y" [] c = "Z" -> "z"]

\* str.lower
lower(text) ==
    [i \in DOMAIN text |-> IF text[i] \in DOMAIN UpperCase THEN UpperCase[text[i]]
                           ELSE text[i]]

Whitespace == {" ", "\n", "\t", "\r"}

RECURSIVE lstrip(_)
lstrip(text) ==
    IF text # << >> /\ Head(text) \in Whitespace THEN lstrip(Tail(text)) ELSE text

RECURSIVE rstrip(_)
rstrip(text) ==
    IF text # << >> /\ text[Len(text)] \in Whitespace
    THEN rstrip(SubSeq(text, 1, Len(text) - 1))
    ELSE text

\* str.strip
strip(text) == rstrip(lstrip(text))

\* kw in text
Occurs(kw, text) ==
    \E i \in 1 .. (Len(text) - Len(kw) + 1) : SubSeq(text, i, i + Len(kw) - 1) = kw

\* any(kw in text for kw in keywords)
AnyOccurs(keywords, text) == \E kw \in keywords : Occurs(kw, text)

----------------------------------------------------------------------------
(* AgentOrchestrator.route_request; confidences in hundredths *)

routing_rules ==
    << [agent |-> "sql", confidence |-> 95,
        keywords |->
          { << "d", "a", "t", "a", "b", "a", "s", "e" >>,
            << "s", "q", "l" >>,
            << "q", "u", "e", "r", "y" >>,
            << "t", "a", "b", "l", "e" >>,
            << "p", "o", "s", "t", "g", "r", "e", "s" >>,
            << "m", "y", "s", "q", "l" >>,
            << "s", "e", "l", "e", "c", "t" >>,
            << "f", "r", "o", "m", " ", "t", "a", "b", "l", "e" >>,
            << "j", "o", "i", "n" >>,
            << "s", "c", "h", "e", "m", "a" >>,
            << "r", "e", "c", "o", "r", "d", "s" >> }],
       [agent |-> "prediction", confidence |-> 90,
        keywords |->
          { << "p", "r", "e", "d", "i", "c", "t" >>,
            << "f", "o", "r", "e", "c", "a", "s", "t" >>,
            << "p", "r", "o", "j", "e", "c", "t", "i", "o", "n" >>,
            << "f", "u", "t", "u", "r", "e" >>,
            << "e", "s", "t", "i", "m", "a", "t", "e" >>,
            << "b", "y", " ", "2", "0", "2", "5" >>,
            << "b", "y", " ", "2", "0", "2", "6" >>,
            << "b", "y", " ", "2", "0", "3", "0" >>,
            << "n", "e", "x", "t", " ", "y", "e", "a", "r" >>,
            << "w", "i", "l", "l", " ", "b", "e" >> }],
       [agent |-> "statistics", confidence |-> 90,
        keywords |->
          { << "s", "i", "g", "n", "i", "f", "i", "c", "a", "n", "t" >>,
            << "c", "o", "r", "r", "e", "l", "a", "t", "i", "o", "n" >>,
            << "t", "-", "t", "e", "s", "t" >>,
            << "t", "e", "s", "t" >>,
            << "p", "-", "v", "a", "l", "u", "e" >>,
            << "h", "y", "p", "o", "t", "h", "e", "s", "i", "s" >>,
            << "c", "o", "m", "p", "a", "r", "e" >>,
            << "a", "n", "o", "v", "a" >>,
            << "c", "h", "i", "-", "s", "q", "u", "a", "r", "e" >> }],
       [agent |-> "eda", confidence |-> 85,
        keywords |->
          { << "e", "x", "p", "l", "o", "r", "e" >>,
            << "e", "d", "a" >>,
            << "e", "x", "p", "l", "o", "r", "a", "t", "o", "r", "y" >>,
            << "p", "r", "o", "f", "i", "l", "e" >>,
            << "o", "v", "e", "r", "v", "i", "e", "w" >>,
            << "s", "u", "m", "m", "a", "r", "y" >>,
            << "d", "e", "s", "c", "r", "i", "b", "e" >>,
            << "d", "i", "s", "t", "r", "i", "b", "u", "t", "i", "o", "n" >>,
            << "m", "i", "s", "s", "i", "n", "g", " ", "v", "a", "l", "u", "e", "s" >> }],
       [agent |-> "visualization", confidence |-> 90,
        keywords |->
          { << "c", "h", "a", "r", "t" >>,
            << "p", "l", "o", "t" >>,
            << "g", "r", "a", "p", "h" >>,
            << "v", "i", "s", "u", "a", "l", "i", "z" >>,
            << "h", "i", "s", "t", "o", "g", "r", "a", "m" >>,
            << "s", "c", "a", "t", "t", "e", "r" >>,
            << "b", "a", "r", " ", "c", "h", "a", "r", "t" >>,
            << "l", "i", "n", "e", " ", "c", "h", "a", "r", "t" >>,
            << "h", "e", "a", "t", "m", "a", "p" >> }],
       [agent |-> "insights", confidence |-> 80,
        keywords |->
          { << "i", "n", "s", "i", "g", "h", "t" >>,
            << "p", "a", "t", "t", "e", "r", "n" >>,
            << "t", "r", "e", "n", "d" >>,
            << "f", "i", "n", "d", "i", "n", "g" >>,
            << "k", "e", "y" >>,
            << "i", "m", "p", "o", "r", "t", "a", "n", "t" >> }] >>

valid_agents ==
    {"sql", "visualization", "prediction", "statistics", "eda", "insights",
     "code-generation"}

AgentText ==
    [id \in valid_agents |->
        CASE id = "sql" -> << "s", "q", "l" >>
          [] id = "visualization" -> << "v", "i", "s", "u", "a", "l", "i", "z", "a", "t", "i", "o", "n" >>
          [] id = "prediction" -> << "p", "r", "e", "d", "i", "c", "t", "i", "o", "n" >>
          [] id = "statistics" -> << "s", "t", "a", "t", "i", "s", "t", "i", "c", "s" >>
          [] id = "eda" -> << "e", "d", "a" >>
          [] id = "insights" -> << "i", "n", "s", "i", "g", "h", "t", "s" >>
          [] id = "code-generation" -> << "c", "o", "d", "e", "-", "g", "e", "n", "e", "r", "a", "t", "i", "o", "n" >>]

\* what get_gemini_client().generate_response(...) does: get_gemini_client
\* raises; generate_response returns its error response, without "response";
\* or it returns the cleaned text of the model's answer
BackendRaises == [kind |-> "raise", text |-> << >>]
BackendError == [kind |-> "error", text |-> << >>]
BackendAnswers ==
    { << "e", "d", "a" >>,
      << " ", "S", "Q", "L", "\n" >>,
      << "m", "l" >> }
Backends ==
    {BackendRaises, BackendError} \cup {[kind |-> "text", text |-> t] : t \in BackendAnswers}

\* the last rule that matches, as a scan of the rules in reverse order finds it
RECURSIVE last_rule(_, _)
last_rule(i, request_lower) ==
    LET k == Len(routing_rules) + 1 - i
    IN  IF i > Len(routing_rules) THEN 0
        ELSE IF AnyOccurs(routing_rules[k].keywords, request_lower) THEN k
        ELSE last_rule(i + 1, request_lower)

\* for rule in routing_rules: the first rule from the i-th on with a keyword
\* in request_lower, 0 when there is none
RECURSIVE first_rule(_, _)
first_rule(i, request_lower) ==
    IF i > Len(routing_rules) THEN 0
    ELSE IF AnyOccurs(routing_rules[i].keywords, request_lower) THEN i
    ELSE first_rule(i + 1, request_lower)

\* the rule scan of every request text of the model, evaluated once
RuleOf == Table([text \in RequestTexts |-> first_rule(1, lower(text))])

Routed(agent, confidence, reason) ==
    [agent |-> agent, confidence |-> confidence, reason |-> reason, raised |-> FALSE]

\* the fallback of route_request without its try/except
ai_route_no_except(backend) ==
    IF backend.kind = "raise"
    THEN [agent |-> "none", confidence |-> 0, reason |-> "raise", raised |-> TRUE]
    ELSE LET agent_name == lower(strip(backend.text))
         IN  IF \E id \in valid_agents : AgentText[id] = agent_name
             THEN Routed(CHOOSE id \in valid_agents : AgentText[id] = agent_name,
                         80, "AI routed")
             ELSE Routed("code-generation", 50, "Default fallback")

\* the fallback of route_request: response.get("response", "").strip().lower()
\* is looked up in valid_agents; an exception gives the default routing
ai_route(backend) ==
    IF backend.kind = "raise"
    THEN Routed("code-generation", 50, "Default routing")
    ELSE LET agent_name == lower(strip(backend.text))
         IN  IF \E id \in valid_agents : AgentText[id] = agent_name
             THEN Routed(CHOOSE id \in valid_agents : AgentText[id] = agent_name,
                         80, "AI routed")
             ELSE Routed("code-generation", 50, "Default fallback")

route_request(user_request, backend) ==
    LET k == RuleOf[user_request]
    IN  IF k # 0
        THEN Routed(routing_rules[k].agent, routing_rules[k].confidence, "Keywords match")
        ELSE ai_route(backend)

----------------------------------------------------------------------------
(* PromptTemplates.get_prompt_for_request and the agents of smart_analyze *)

prediction_keywords ==
    { << "p", "r", "e", "d", "i", "c", "t" >>,
      << "f", "o", "r", "e", "c", "a", "s", "t" >>,
      << "p", "r", "o", "j", "e", "c", "t", "i", "o", "n" >>,
      << "f", "u", "t", "u", "r", "e" >>,
      << "w", "i", "l", "l", " ", "b", "e" >>,
      << "b", "y", " ", "2", "0", "2", "5" >>,
      << "b", "y", " ", "2", "0", "2", "6" >>,
      << "b", "y", " ", "2", "0", "3", "0" >>,
      << "b", "y", " ", "2", "0", "5", "0" >>,
      << "e", "s", "t", "i", "m", "a", "t", "e" >>,
      << "n", "e", "x", "t", " ", "y", "e", "a", "r" >> }

stats_keywords ==
    { << "s", "i", "g", "n", "i", "f", "i", "c", "a", "n", "t" >>,
      << "c", "o", "r", "r", "e", "l", "a", "t", "i", "o", "n" >>,
      << "c", "o", "r", "r", "e", "l", "a", "t", "e" >>,
      << "t", "-", "t", "e", "s", "t" >>,
      << "t", "e", "s", "t" >>,
      << "p", "-", "v", "a", "l", "u", "e" >>,
      << "h", "y", "p", "o", "t", "h", "e", "s", "i", "s" >>,
      << "c", "o", "m", "p", "a", "r", "e" >>,
      << "d", "i", "f", "f", "e", "r", "e", "n", "c", "e", " ", "b", "e", "t", "w", "e", "e", "n" >>,
      << "a", "n", "o", "v", "a" >> }

eda_keywords ==
    { << "e", "x", "p", "l", "o", "r", "e" >>,
      << "e", "d", "a" >>,
      << "e", "x", "p", "l", "o", "r", "a", "t", "o", "r", "y" >>,
      << "o", "v", "e", "r", "v", "i", "e", "w" >>,
      << "s", "u", "m", "m", "a", "r", "y" >>,
      << "d", "e", "s", "c", "r", "i", "b", "e" >>,
      << "p", "r", "o", "f", "i", "l", "e" >>,
      << "u", "n", "d", "e", "r", "s", "t", "a", "n", "d" >>,
      << "d", "i", "s", "t", "r", "i", "b", "u", "t", "i", "o", "n" >>,
      << "m", "i", "s", "s", "i", "n", "g" >> }

ml_keywords ==
    { << "t", "r", "a", "i", "n" >>,
      << "m", "o", "d", "e", "l" >>,
      << "c", "l", "a", "s", "s", "i", "f", "y" >>,
      << "c", "l", "a", "s", "s", "i", "f", "i", "c", "a", "t", "i", "o", "n" >>,
      << "c", "l", "u", "s", "t", "e", "r" >>,
      << "f", "e", "a", "t", "u", "r", "e", " ", "i", "m", "p", "o", "r", "t", "a", "n", "c", "e" >>,
      << "m", "a", "c", "h", "i", "n", "e", " ", "l", "e", "a", "r", "n", "i", "n", "g" >>,
      << "m", "l" >> }

viz_keywords ==
    { << "c", "h", "a", "r", "t" >>,
      << "p", "l", "o", "t" >>,
      << "g", "r", "a", "p", "h" >>,
      << "v", "i", "s", "u", "a", "l", "i", "z" >>,
      << "s", "h", "o", "w", " ", "m", "e" >>,
      << "d", "i", "s", "p", "l", "a", "y" >>,
      << "h", "i", "s", "t", "o", "g", "r", "a", "m" >>,
      << "s", "c", "a", "t", "t", "e", "r" >> }

insight_keywords ==
    { << "i", "n", "s", "i", "g", "h", "t" >>,
      << "p", "a", "t", "t", "e", "r", "n" >>,
      << "t", "r", "e", "n", "d" >>,
      << "k", "e", "y", " ", "f", "i", "n", "d", "i", "n", "g" >>,
      << "i", "m", "p", "o", "r", "t", "a", "n", "t" >> }

get_prompt_for_request(user_request) ==
    LET request_lower == lower(user_request)
    IN  IF AnyOccurs(prediction_keywords, request_lower) THEN "PREDICTION_PROMPT"
        ELSE IF AnyOccurs(stats_keywords, request_lower) THEN "STATISTICS_PROMPT"
        ELSE IF AnyOccurs(eda_keywords, request_lower) THEN "EDA_PROMPT"
        ELSE IF AnyOccurs(ml_keywords, request_lower) THEN "ML_PROMPT"
        ELSE IF AnyOccurs(viz_keywords, request_lower) THEN "VISUALIZATION_PROMPT"
        ELSE IF AnyOccurs(insight_keywords, request_lower) THEN "INSIGHTS_PROMPT"
        ELSE "DIRECT_ANSWER_PROMPT"

\* get_prompt_for_request of every request text of the model, evaluated once
PromptOf == Table([text \in RequestTexts |-> get_prompt_for_request(text)])

\* the template of the agent method smart_analyze calls for the routed agent
agent_prompt(selected_agent_id, request) ==
    IF selected_agent_id = "visualization" THEN "VISUALIZATION_PROMPT"
    ELSE IF selected_agent_id = "insights" THEN "INSIGHTS_PROMPT"
    ELSE IF selected_agent_id = "package-manager" THEN "PACKAGE_PROMPT"
    ELSE PromptOf[request]

NoRouting ==
    [entry |-> "none", text |-> << >>, backend |-> BackendError, agent |-> "none",
     confidence |-> 0, reason |-> "none", raised |-> FALSE, template |-> "none"]

NoPrevious == [text |-> << >>, agent |-> "none"]

\* select_best_agent (POST /agents/select-agent): route_request on the request
select_best_agent(request, backend) ==
    LET r == route_request(request, backend)
    IN  /\ routing' = [entry |-> "select_best_agent", text |-> request,
                       backend |-> backend,
                       agent |-> r.agent, confidence |-> r.confidence,
                       reason |-> r.reason, raised |-> r.raised, template |-> "none"]
        /\ previous' = [text |-> routing.text, agent |-> routing.agent]
        /\ UNCHANGED << execVars, agentVars, extracted, handler, site_packages, sanitized >>

\* POST /agents/smart-analyze with auto_execute false: route_request, then the
\* method of the selected agent builds its prompt
smart_analyze(request, backend) ==
    LET r == route_request(request, backend)
    IN  /\ routing' = [entry |-> "smart_analyze", text |-> request,
                       backend |-> backend,
                       agent |-> r.agent, confidence |-> r.confidence,
                       reason |-> r.reason, raised |-> r.raised,
                       template |-> IF r.raised THEN "none"
                                    ELSE agent_prompt(r.agent, request)]
        /\ previous' = [text |-> routing.text, agent |-> routing.agent]
        /\ UNCHANGED << execVars, agentVars, extracted, handler, site_packages, sanitized >>

----------------------------------------------------------------------------
(* TextProcessor.extract_code_blocks on the text of a generated response *)

\* the backtick, which a TLA+ string cannot hold
Backtick == "BACKTICK"

\* the lines of a response: a fence, an indented fence with a language tag,
\* and a statement
ResponseLines ==
    { << Backtick, Backtick, Backtick >>,
      << " ", Backtick, Backtick, Backtick, "s", "q", "l" >>,
      << "p", "r", "i", "n", "t", "(", ")" >> }

RECURSIVE join(_)
\* '\n'.join(lines)
join(lines) ==
    IF lines = << >> THEN << >>
    ELSE IF Len(lines) = 1 THEN lines[1]
    ELSE lines[1] \o << "\n" >> \o join(Tail(lines))

RECURSIVE split(_)
\* text.split('\n')
split(text) ==
    IF \A i \in DOMAIN text : text[i] # "\n" THEN << text >>
    ELSE LET i == CHOOSE k \in DOMAIN text :
                     text[k] = "\n" /\ \A j \in 1 .. (k - 1) : text[j] # "\n"
         IN  << SubSeq(text, 1, i - 1) >> \o split(SubSeq(text, i + 1, Len(text)))

LineSeqs == SeqsUpTo(ResponseLines, MaxLines) \ {<< >>}

ResponseTexts == {join(lines) : lines \in LineSeqs}

\* text.startswith(prefix)
startswith(text, prefix) ==
    Len(text) >= Len(prefix) /\ SubSeq(text, 1, Len(prefix)) = prefix

Fence == << Backtick, Backtick, Backtick >>
PythonText == << "p", "y", "t", "h", "o", "n" >>

\* line.strip().startswith of the fence
is_fence(line) == startswith(strip(line), Fence)

\* line.strip()[3:].strip() or "python"
language_of(line) ==
    LET tag == strip(SubSeq(strip(line), 4, Len(strip(line))))
    IN  IF tag = << >> THEN PythonText ELSE tag

\* the loop over the lines, from line i on, with the loop's variables
RECURSIVE scan_lines(_, _, _, _, _, _)
scan_lines(lines, i, in_code_block, current_code, current_language, code_blocks) ==
    IF i > Len(lines) THEN
        [code_blocks |-> code_blocks, in_code_block |-> in_code_block,
         current_code |-> current_code, current_language |-> current_language]
    ELSE IF is_fence(lines[i]) THEN
        IF in_code_block
        THEN scan_lines(lines, i + 1, FALSE, << >>, current_language,
                        Append(code_blocks,
                               [language |-> IF current_language = << >> THEN PythonText
                                             ELSE current_language,
                                code |-> join(current_code)]))
        ELSE scan_lines(lines, i + 1, TRUE, current_code, language_of(lines[i]),
                        code_blocks)
    ELSE IF in_code_block
        THEN scan_lines(lines, i + 1, in_code_block, Append(current_code, lines[i]),
                        current_language, code_blocks)
        ELSE scan_lines(lines, i + 1, in_code_block, current_code, current_language,
                        code_blocks)

\* extract_code_blocks that also returns the block left open at the end
extract_code_blocks_flush(text) ==
    LET end == scan_lines(split(text), 1, FALSE, << >>, << >>, << >>)
    IN  IF end.in_code_block
        THEN Append(end.code_blocks,
                    [language |-> end.current_language, code |-> join(end.current_code)])
        ELSE end.code_blocks

extract_code_blocks(text) ==
    scan_lines(split(text), 1, FALSE, << >>, << >>, << >>).code_blocks

\* extract_code_blocks of every response text of the model, evaluated once
BlocksOf == Table([text \in ResponseTexts |-> extract_code_blocks(text)])

NoExtract == [called |-> FALSE, text |-> << >>, code_blocks |-> << >>]

\* a call of text_processor.extract_code_blocks
extract(text) ==
    /\ extracted' = [called |-> TRUE, text |-> text,
                     code_blocks |-> BlocksOf[text]]
    /\ UNCHANGED << execVars, agentVars, routing, previous, handler, site_packages, sanitized >>

----------------------------------------------------------------------------
(* CodeValidator.sanitize_code on the text of a code *)

\* the pieces of a code text: the two calls the patterns look for, each with
\* its opening quote, the two quotes, and a file name
read_csv == << "p", "d", ".", "r", "e", "a", "d", "_", "c", "s", "v", "(" >>
read_excel == << "p", "d", ".", "r", "e", "a", "d", "_", "e", "x", "c", "e", "l", "(" >>
Quotes == {"'", "\""}
CodePieces ==
    {read_csv \o << "'" >>, read_excel \o << "\"" >>, << "'" >>, << "\"" >>, << "x" >>}

RECURSIVE concat(_)
\* ''.join(pieces)
concat(pieces) ==
    IF pieces = << >> THEN << >> ELSE Head(pieces) \o concat(Tail(pieces))

CodeTexts == {concat(pieces) : pieces \in SeqsUpTo(CodePieces, MaxPieces)}

\* the replacement string of both re.sub calls
Replacement == << "d", "f", " ", " ", "#", " ", "U", "s", "i", "n", "g", " ", "p", "r", "e", "-", "l", "o", "a", "d", "e", "d", " ", "d", "a", "t", "a" >>

\* the end of the match of  call['"][^'"]*['"]  at index i of code (0: none):
\* the call, a quote, then the characters up to the next quote
match_end(call, code, i) ==
    LET q == i + Len(call)
    IN  IF /\ q <= Len(code)
           /\ SubSeq(code, i, q - 1) = call
           /\ code[q] \in Quotes
           /\ \E k \in (q + 1) .. Len(code) : code[k] \in Quotes
        THEN CHOOSE k \in (q + 1) .. Len(code) :
                /\ code[k] \in Quotes
                /\ \A j \in (q + 1) .. (k - 1) : code[j] \notin Quotes
        ELSE 0

\* re.sub from index i on: the matches found from left to right, none
\* overlapping another, each replaced
RECURSIVE re_sub_from(_, _, _)
re_sub_from(call, code, i) ==
    IF i > Len(code) THEN << >>
    ELSE LET e == match_end(call, code, i)
         IN  IF e = 0 THEN << code[i] >> \o re_sub_from(call, code, i + 1)
             ELSE Replacement \o re_sub_from(call, code, e + 1)

\* re.sub with count=1: only the first match is replaced
RECURSIVE re_sub_first_from(_, _, _)
re_sub_first_from(call, code, i) ==
    IF i > Len(code) THEN << >>
    ELSE LET e == match_end(call, code, i)
         IN  IF e = 0 THEN << code[i] >> \o re_sub_first_from(call, code, i + 1)
             ELSE Replacement \o SubSeq(code, e + 1, Len(code))

re_sub_first(call, code) == re_sub_first_from(call, code, 1)

re_sub(call, code) == re_sub_from(call, code, 1)

sanitize_code(code) == re_sub(read_excel, re_sub(read_csv, code))

NoSanitize == [called |-> FALSE, code |-> << >>, once |-> << >>, twice |-> << >>]

\* a call of sanitize_code on the code text at hand, and a call of it on what
\* it returned
sanitize ==
    /\ ~sanitized.called
    /\ sanitized' = [called |-> TRUE, code |-> sanitized.code,
                     once |-> sanitize_code(sanitized.code),
                     twice |-> sanitize_code(sanitize_code(sanitized.code))]
    /\ UNCHANGED << execVars, agentVars, routing, previous, extracted, handler, site_packages >>

----------------------------------------------------------------------------
(* CodeExecutor.check_required_packages and install_package *)

package_mapping ==
    << [package |-> "sklearn", pip_name |-> << "s", "c", "i", "k", "i", "t", "-", "l", "e", "a", "r", "n" >>],
       [package |-> "cv2", pip_name |-> << "o", "p", "e", "n", "c", "v", "-", "p", "y", "t", "h", "o", "n" >>],
       [package |-> "PIL", pip_name |-> << "P", "i", "l", "l", "o", "w" >>],
       [package |-> "plotly", pip_name |-> << "p", "l", "o", "t", "l", "y" >>],
       [package |-> "bokeh", pip_name |-> << "b", "o", "k", "e", "h" >>],
       [package |-> "altair", pip_name |-> << "a", "l", "t", "a", "i", "r" >>],
       [package |-> "xgboost", pip_name |-> << "x", "g", "b", "o", "o", "s", "t" >>],
       [package |-> "lightgbm", pip_name |-> << "l", "i", "g", "h", "t", "g", "b", "m" >>],
       [package |-> "tensorflow", pip_name |-> << "t", "e", "n", "s", "o", "r", "f", "l", "o", "w" >>],
       [package |-> "torch", pip_name |-> << "t", "o", "r", "c", "h" >>],
       [package |-> "transformers", pip_name |-> << "t", "r", "a", "n", "s", "f", "o", "r", "m", "e", "r", "s" >>],
       [package |-> "statsmodels", pip_name |-> << "s", "t", "a", "t", "s", "m", "o", "d", "e", "l", "s" >>] >>

\* f'import {package}' in code or f'from {package}' in code
mentions_package(code, package) ==
    \E i \in DOMAIN code : ImportOf(code[i]) = package

\* the packages every code string of the model mentions, evaluated once
Mentions ==
    Table([code \in AllCodes |->
             {package_mapping[i].package :
                 i \in {j \in DOMAIN package_mapping :
                           mentions_package(code, package_mapping[j].package)}}])

\* the loop over package_mapping.items() from its i-th item on: the pip names
\* of the mentioned packages that __import__ does not find among importable
RECURSIVE required_from(_, _, _)
required_from(i, code, importable) ==
    IF i > Len(package_mapping) THEN << >>
    ELSE LET item == package_mapping[i]
             rest == required_from(i + 1, code, importable)
         IN  IF item.package \in Mentions[code] /\ item.package \notin importable
             THEN << item.pip_name >> \o rest
             ELSE rest

check_required_packages(code) == required_from(1, code, site_packages)

\* the modules the statements of the model import
Modules == {ImportOf(stmt) : stmt \in InstallStatements} \ {""}

\* check_required_packages of every code string of the model under every set
\* of importable modules, evaluated once
RequiredOf ==
    Table([code \in AllCodes |->
             Table([importable \in SUBSET Modules |->
                      required_from(1, code, importable)])])

\* the module that pip installs under a pip name
ModuleOf(pip_name) ==
    LET i == CHOOSE k \in DOMAIN package_mapping : package_mapping[k].pip_name = pip_name
    IN  package_mapping[i].package

Digits == {"0", "1", "2", "3", "4", "5", "6", "7", "8", "9"}

Alnum == DOMAIN UpperCase \cup {UpperCase[c] : c \in DOMAIN UpperCase} \cup Digits

\* str.isalnum
isalnum(text) == text # << >> /\ \A i \in DOMAIN text : text[i] \in Alnum

\* text.replace(c, '') for a character c
without(text, c) == SelectSeq(text, LAMBDA x : x # c)

\* package_name.replace('-', '').replace('_', '').isalnum()
valid_name(package_name) == isalnum(without(without(package_name, "-"), "_"))

\* valid_name of every pip name of package_mapping, evaluated once
ValidName ==
    Table([package_name \in {package_mapping[i].pip_name : i \in DOMAIN package_mapping} |->
             valid_name(package_name)])

\* what subprocess.run of pip does: exit code 0, another exit code,
\* TimeoutExpired after 120 seconds, or another exception (OSError)
InstallOutcomes == {"installed", "nonzero", "TimeoutExpired", "OSError"}

InstallResult(success, message) ==
    [success |-> success, message |-> message, raised |-> FALSE]

\* install_package without its except clauses
install_package_no_except(package_name, outcome) ==
    IF ~ValidName[package_name]
    THEN InstallResult(FALSE, "Invalid package name")
    ELSE CASE outcome = "installed" -> InstallResult(TRUE, "Successfully installed")
           [] outcome = "nonzero" -> InstallResult(FALSE, "Failed to install")
           [] OTHER -> [success |-> FALSE, message |-> outcome, raised |-> TRUE]

install_package(package_name, outcome) ==
    IF ~ValidName[package_name]
    THEN InstallResult(FALSE, "Invalid package name")
    ELSE CASE outcome = "installed" -> InstallResult(TRUE, "Successfully installed")
           [] outcome = "nonzero" -> InstallResult(FALSE, "Failed to install")
           [] outcome = "TimeoutExpired" -> InstallResult(FALSE, "Installation timed out")
           [] OTHER -> InstallResult(FALSE, "Error installing")

----------------------------------------------------------------------------
(* The routers that execute code *)

NoHandler ==
    [entry |-> "none", status |-> 200, required |-> << >>, installations |-> << >>,
     calls |-> 0, blocks |-> 0, executed |-> << >>]

\* execute_code of routers/ai_agent.py (POST /execute-code): the installation
\* of the required packages, then code_executor.execute_code; an exception
\* before the execution gives the response 500
post_execute_code(code, file_id, auto_install) ==
    /\ pc = "idle"
    /\ LET required_packages == IF auto_install THEN RequiredOf[code][site_packages]
                                ELSE << >>
       IN  \E outcomes \in [DOMAIN required_packages -> InstallOutcomes] :
             LET results == [i \in DOMAIN required_packages |->
                               install_package(required_packages[i], outcomes[i])]
                 raising == {i \in DOMAIN results : results[i].raised}
                 reached == IF raising = {} THEN DOMAIN results
                            ELSE {i \in DOMAIN results : \A j \in raising : i < j}
                 report  == [i \in DOMAIN results |->
                               [package |-> required_packages[i],
                                success |-> results[i].success,
                                message |-> results[i].message]]
             IN  /\ site_packages' = site_packages \cup
                       {ModuleOf(required_packages[i]) :
                           i \in {j \in reached : results[j].success}}
                 /\ IF raising = {}
                    THEN /\ execute_code(code, file_id)
                         /\ handler' = [NoHandler EXCEPT !.entry = "post_execute_code",
                                                         !.required = required_packages,
                                                         !.installations = report,
                                                         !.calls = 1]
                    ELSE /\ handler' = [NoHandler EXCEPT !.entry = "post_execute_code",
                                                         !.status = 500,
                                                         !.required = required_packages]
                         /\ UNCHANGED execVars
    /\ UNCHANGED << agentVars, routing, previous, extracted, sanitized >>

\* execute_code of routers/ai_agent_v2.py (POST /agent/v2/execute) with
\* auto_install false: CodeExecutionService.execute
post_execute(code, file_id) ==
    /\ service_execute(code, file_id)
    /\ handler' = [NoHandler EXCEPT !.entry = "post_execute", !.calls = 1]
    /\ UNCHANGED << agentVars, routing, previous, extracted, site_packages, sanitized >>

----------------------------------------------------------------------------
(* The chat handlers: auto-execution of the code of a generated response *)

\* the code of a block as the statements the executor runs, one per line
StatementsOf(code_text) ==
    IF code_text = << >> THEN << >>
    ELSE [i \in DOMAIN split(code_text) |-> "print"]

\* the indexes of the blocks that the handlers take for Python: the routers
\* ai_agent and specialized_agents compare block.get("language", "").lower(),
\* the router ai_agent_v2 compares b.get("language")
python_blocks(code_blocks, lowered) ==
    {i \in DOMAIN code_blocks :
        (IF lowered THEN lower(code_blocks[i].language)
         ELSE code_blocks[i].language) = PythonText}

\* python_blocks[0], or next(..., None): the first of them (0: none)
first_python(code_blocks, lowered) ==
    LET found == python_blocks(code_blocks, lowered)
    IN  IF found = {} THEN 0
        ELSE CHOOSE i \in found : \A j \in found : i <= j

\* what a handler finds in every response text of the model, evaluated once
ChatPlan ==
    Table([text \in ResponseTexts |->
             LET code_blocks == BlocksOf[text]
                 v1 == first_python(code_blocks, TRUE)
                 v2 == first_python(code_blocks, FALSE)
             IN  [blocks |-> Len(code_blocks),
                  v1 |-> v1,
                  v1_code |-> IF v1 = 0 THEN << >>
                              ELSE StatementsOf(code_blocks[v1].code),
                  v2 |-> v2,
                  v2_code |-> IF v2 = 0 THEN << >>
                              ELSE StatementsOf(code_blocks[v2].code)]])

\* the responses of the chat requests: one response text of the model for
\* each thing a handler can find in a response
ChatTexts ==
    LET plans == {ChatPlan[text] : text \in ResponseTexts}
    IN  {CHOOSE text \in ResponseTexts : ChatPlan[text] = plan : plan \in plans}

\* chat_with_agent of routers/ai_agent.py (POST /chat): the response of
\* gemini_client.generate_response with its code blocks, then the execution
\* of python_blocks[0]["code"] by code_executor.execute_code
chat_with_agent(text, success, file_id, auto_execute) ==
    /\ pc = "idle"
    /\ LET plan == ChatPlan[text]
       IN  IF success /\ auto_execute /\ plan.blocks > 0 /\ plan.v1 > 0
           THEN /\ execute_code(plan.v1_code, file_id)
                /\ handler' = [NoHandler EXCEPT !.entry = "chat_with_agent",
                                                !.blocks = plan.blocks,
                                                !.executed = << plan.v1 >>,
                                                !.calls = 1]
           ELSE /\ handler' = [NoHandler EXCEPT !.entry = "chat_with_agent",
                                                !.blocks = IF success THEN plan.blocks
                                                           ELSE 0]
                /\ UNCHANGED execVars
    /\ UNCHANGED << agentVars, routing, previous, extracted, site_packages, sanitized >>

\* chat of routers/ai_agent_v2.py (POST /agent/v2/chat): a failed response
\* gives 500; the code of the first block whose language is "python", when
\* it is not empty, is run by code_service.execute
chat(text, success, file_id, auto_execute) ==
    /\ pc = "idle"
    /\ LET plan == ChatPlan[text]
       IN  IF ~success
           THEN /\ handler' = [NoHandler EXCEPT !.entry = "chat", !.status = 500]
                /\ UNCHANGED execVars
           ELSE IF auto_execute /\ plan.blocks > 0 /\ plan.v2_code # << >>
           THEN /\ service_execute(plan.v2_code, file_id)
                /\ handler' = [NoHandler EXCEPT !.entry = "chat",
                                                !.blocks = plan.blocks,
                                                !.executed = << plan.v2 >>,
                                                !.calls = 1]
           ELSE /\ handler' = [NoHandler EXCEPT !.entry = "chat",
                                                !.blocks = plan.blocks]
                /\ UNCHANGED execVars
    /\ UNCHANGED << agentVars, routing, previous, extracted, site_packages, sanitized >>

----------------------------------------------------------------------------
(* MultiAgentOrchestrator.register_agent and route_request *)

\* the agents that can be registered: AgentCapability with priority 5
AgentCapabilities ==
    { [agent_id |-> "visualization", keywords |-> {<< "p", "l", "o", "t" >>},
       specializations |-> {<< "c", "h", "a", "r", "t" >>}, priority |-> 5],
      [agent_id |-> "prediction", keywords |-> {<< "p", "r", "e", "d", "i", "c", "t" >>},
       specializations |-> {<< "f", "o", "r", "e", "c", "a", "s", "t" >>}, priority |-> 5],
      [agent_id |-> "general", keywords |-> {}, specializations |-> {}, priority |-> 5] }

OrchestratorRequests == {<< "P", "l", "o", "t" >>, << "p", "r", "e", "d", "i", "c", "t" >>, << "p", "l", "o", "t", " ", "f", "o", "r", "e", "c", "a", "s", "t" >>}

\* the characters of the request the cache key is made of
CacheKeyLen == 100

\* hash(request_lower[:100]), a hash without collisions
cache_key(request_lower) == SubSeq(request_lower, 1, Min(Len(request_lower), CacheKeyLen))

\* 10 for each keyword and 5 for each specialization in the request, plus
\* the priority
score(cap, request_lower) ==
    10 * Cardinality({k \in cap.keywords : Occurs(k, request_lower)})
       + 5 * Cardinality({k \in cap.specializations : Occurs(k, request_lower)})
       + cap.priority

\* max(scores, key=scores.get): the first agent with the highest score
best_agent(capabilities, request_lower) ==
    LET i == CHOOSE k \in DOMAIN capabilities :
                /\ \A j \in DOMAIN capabilities :
                      score(capabilities[j], request_lower)
                         <= score(capabilities[k], request_lower)
                /\ \A j \in 1 .. (k - 1) :
                      score(capabilities[j], request_lower)
                         < score(capabilities[k], request_lower)
    IN  capabilities[i].agent_id

\* called: the last call was route_request, of which request, agent, raised
\* and cached tell
NoOrchestrator ==
    [capabilities |-> << >>, routing_cache |-> << >>, called |-> FALSE,
     request |-> << >>, agent |-> "none", raised |-> FALSE, cached |-> FALSE]

\* register_agent of an agent id that is not registered yet
register_agent(cap) ==
    /\ \A i \in DOMAIN orchestrator.capabilities :
          orchestrator.capabilities[i].agent_id # cap.agent_id
    /\ orchestrator' = [orchestrator EXCEPT !.capabilities = Append(@, cap),
                                            !.called = FALSE]
    /\ UNCHANGED << execVars, webVars, predictor, sessions, limiter, planner >>

\* route_request of MultiAgentOrchestrator: the cached agent of the key, or
\* the best agent, which is cached; max() of no score raises ValueError
orchestrator_route_request(user_request) ==
    LET request_lower == lower(user_request)
        key == cache_key(request_lower)
    IN  /\ orchestrator' =
              IF key \in DOMAIN orchestrator.routing_cache
              THEN [orchestrator EXCEPT !.called = TRUE, !.request = user_request,
                                        !.agent = orchestrator.routing_cache[key],
                                        !.raised = FALSE, !.cached = TRUE]
              ELSE IF orchestrator.capabilities = << >>
              THEN [orchestrator EXCEPT !.called = TRUE, !.request = user_request,
                                        !.agent = "none", !.raised = TRUE,
                                        !.cached = FALSE]
              ELSE LET best == best_agent(orchestrator.capabilities, request_lower)
                   IN  [orchestrator EXCEPT
                           !.called = TRUE, !.request = user_request,
                           !.agent = best, !.raised = FALSE, !.cached = FALSE,
                           !.routing_cache =
                               [k \in DOMAIN @ \cup {key} |->
                                   IF k = key THEN best ELSE @[k]]]
        /\ UNCHANGED << execVars, webVars, predictor, sessions, limiter, planner >>

----------------------------------------------------------------------------
(* PredictionAgent.predict *)

\* the values of the series handed to predict, the years being 1, 2, ...;
\* each series is a straight line, which linear regression fits exactly
Series == {<< 1, 2, 3 >>, << 2, 4, 6 >>, << 5, 5 >>}
YearsOf(values) == [i \in DOMAIN values |-> i]
TargetYears == {4, 5}
EntityNames == {"Entity", "India"}

\* _cache_key: the digest of years, values and target_year, without collisions
prediction_cache_key(years, values, target_year) ==
    [years |-> years, values |-> values, target |-> target_year]

\* what predict computes when the key is not cached: fewer than 3 points give
\* an error; else intercept + slope * target_year of the linear model, the
\* best one for a straight line
compute_prediction(years, values, target_year, entity_name) ==
    IF Len(years) < 3
    THEN [entity |-> entity_name, target_year |-> target_year,
          data_points |-> Len(years), best_model |-> "None", prediction |-> 0,
          success |-> FALSE, error |-> "Insufficient data points"]
    ELSE LET slope == (values[2] - values[1]) \div (years[2] - years[1])
             intercept == values[1] - slope * years[1]
         IN  [entity |-> entity_name, target_year |-> target_year,
              data_points |-> Len(years), best_model |-> "linear",
              prediction |-> intercept + slope * target_year,
              success |-> TRUE, error |-> "None"]

NoPredictor ==
    [prediction_cache |-> << >>, called |-> FALSE, years |-> << >>, values |-> << >>,
     target_year |-> 0, entity_name |-> "", results |-> << >>, cached |-> FALSE]

\* predict: the cached results of the key, or the computed ones, which are
\* cached unless the points were too few
predict(years, values, target_year, entity_name) ==
    LET key == prediction_cache_key(years, values, target_year)
        args == [predictor EXCEPT !.called = TRUE, !.years = years, !.values = values,
                                  !.target_year = target_year,
                                  !.entity_name = entity_name]
    IN  /\ predictor' =
              IF key \in DOMAIN predictor.prediction_cache
              THEN [args EXCEPT !.results = predictor.prediction_cache[key],
                                !.cached = TRUE]
              ELSE LET results == compute_prediction(years, values, target_year,
                                                     entity_name)
                   IN  [args EXCEPT
                           !.results = results, !.cached = FALSE,
                           !.prediction_cache =
                               IF Len(years) < 3 THEN @
                               ELSE [k \in DOMAIN @ \cup {key} |->
                                        IF k = key THEN results ELSE @[k]]]
        /\ UNCHANGED << execVars, webVars, orchestrator, sessions, limiter, planner >>

----------------------------------------------------------------------------
(* session_manager *)

\* the ids uuid4 gives to sessions, and the file ids of the requests
SessionIds == {"s1", "s2"}
SessionFiles == {"f1", "f2", "f3"}

\* active_file_id None
None == "None"

\* _sessions
NoSessions == << >>

Has(seq, x) == \E i \in DOMAIN seq : seq[i] = x

\* list.remove(x): without the first x
remove(seq, x) ==
    LET i == CHOOSE k \in DOMAIN seq : seq[k] = x /\ \A j \in 1 .. (k - 1) : seq[j] # x
    IN  SubSeq(seq, 1, i - 1) \o SubSeq(seq, i + 1, Len(seq))

\* create_session: a session without files and without an active file
create_session(store, session_id) ==
    [k \in DOMAIN store \cup {session_id} |->
        IF k = session_id THEN [active_file_id |-> None, files |-> << >>]
        ELSE store[k]]

\* set_active_file; for a session that does not exist it returns False
set_active_file(store, session_id, file_id) ==
    IF session_id \in DOMAIN store
    THEN [store EXCEPT ![session_id].active_file_id = file_id]
    ELSE store

\* add_file_to_session: the file is appended if it is new, and is the active
\* one if there was none
add_file_to_session(store, session_id, file_id) ==
    IF session_id \in DOMAIN store
    THEN LET session == store[session_id]
         IN  [store EXCEPT ![session_id] =
                 [active_file_id |-> IF session.active_file_id = None
                                     THEN file_id ELSE session.active_file_id,
                  files |-> IF Has(session.files, file_id) THEN session.files
                            ELSE Append(session.files, file_id)]]
    ELSE store

\* remove_file_from_session: if the file was the active one, the first file
\* left, or None, is
remove_file_from_session(store, session_id, file_id) ==
    IF session_id \in DOMAIN store
    THEN LET session == store[session_id]
             files == IF Has(session.files, file_id)
                      THEN remove(session.files, file_id) ELSE session.files
         IN  [store EXCEPT ![session_id] =
                 [active_file_id |->
                     IF session.active_file_id = file_id
                     THEN (IF files # << >> THEN files[1] ELSE None)
                     ELSE session.active_file_id,
                  files |-> files]]
    ELSE store

\* the file ids the sessions hold: uuid4 gives save_dataframe none of them
HeldFiles ==
    UNION {{sessions[k].files[i] : i \in DOMAIN sessions[k].files} : k \in DOMAIN sessions}

\* POST /upload: without a session id the session is created; the file id
\* save_dataframe returns is added to the session
upload_file(session_id, file_id) ==
    /\ file_id \notin HeldFiles
    /\ \/ /\ session_id = None
          /\ \E new_id \in SessionIds \ DOMAIN sessions :
                sessions' = add_file_to_session(create_session(sessions, new_id),
                                                new_id, file_id)
       \/ /\ session_id # None
          /\ sessions' = add_file_to_session(sessions, session_id, file_id)
    /\ UNCHANGED << execVars, webVars, orchestrator, predictor, limiter, planner >>

\* POST /files/select
select_active_file(session_id, file_id) ==
    /\ sessions' = set_active_file(sessions, session_id, file_id)
    /\ UNCHANGED << execVars, webVars, orchestrator, predictor, limiter, planner >>

\* DELETE /files/{file_id}
delete_session_file(file_id, session_id) ==
    /\ sessions' = remove_file_from_session(sessions, session_id, file_id)
    /\ UNCHANGED << execVars, webVars, orchestrator, predictor, limiter, planner >>

----------------------------------------------------------------------------
(* RateLimiter *)

\* RateLimiter(requests, period): one token per period / requests seconds
requests == 1
period == 2

\* the seconds time.time() goes through, and the identifiers of the callers
MaxTime == 5
Identifiers == {"a", "b"}

\* _buckets is empty after __init__; clock is time.time(); allowed_at is the
\* time of the last allowed request of each identifier; call is the last call
\* of is_allowed
NoLimiter ==
    [buckets |-> << >>, clock |-> 0, allowed_at |-> << >>,
     call |-> [called |-> FALSE, identifier |-> "", allowed |-> FALSE,
               tokens |-> 0, since |-> 0]]

\* bucket["last_update"] = current_time, whatever the refill was
last_update(bucket, current_time, refill) == current_time

\* time.time() goes on
tick ==
    /\ limiter.clock < MaxTime
    /\ limiter' = [limiter EXCEPT !.clock = @ + 1]
    /\ UNCHANGED << execVars, webVars, orchestrator, predictor, sessions, planner >>

\* is_allowed
is_allowed(identifier) ==
    LET current_time == limiter.clock
        known == identifier \in DOMAIN limiter.buckets
        bucket == limiter.buckets[identifier]
        refill == ((current_time - bucket.last_update) * requests) \div period
        tokens == Min(requests, bucket.tokens + refill)
        allowed == ~known \/ tokens > 0
        after == IF ~known
                 THEN [tokens |-> requests - 1, last_update |-> current_time]
                 ELSE [tokens |-> IF tokens > 0 THEN tokens - 1 ELSE tokens,
                       last_update |-> last_update(bucket, current_time, refill)]
        put(f, v) == [k \in DOMAIN f \cup {identifier} |->
                         IF k = identifier THEN v ELSE f[k]]
    IN  /\ limiter' =
              [buckets |-> put(limiter.buckets, after),
               clock |-> current_time,
               allowed_at |-> IF allowed THEN put(limiter.allowed_at, current_time)
                              ELSE limiter.allowed_at,
               call |-> [called |-> TRUE, identifier |-> identifier,
                         allowed |-> allowed,
                         tokens |-> IF known THEN bucket.tokens ELSE requests,
                         since |-> IF known
                                   THEN current_time - limiter.allowed_at[identifier]
                                   ELSE 0]]
        /\ UNCHANGED << execVars, webVars, orchestrator, predictor, sessions, planner >>

----------------------------------------------------------------------------
(* PlanningAgent.execute_plan *)

\* the ids of the tasks of a plan, the ids its dependencies name, and the
\* longest execution_order
TaskIds == {"t1", "t2"}
DependencyIds == {"t1", "t2", "t3"}
MaxOrder == 2

\* plan["tasks"]: the dependencies of each task it has; an id of
\* execution_order may have no task
Tasks == UNION {[T -> SUBSET DependencyIds] : T \in SUBSET TaskIds}
ExecutionOrders == UNION {[1 .. n -> TaskIds] : n \in 0 .. MaxOrder}
Plans == [tasks : Tasks, execution_order : ExecutionOrders]

DependenciesNotSatisfied == "Dependencies not satisfied"

\* what orchestrator.process_request returns
ProcessResults == {"success", "failure"}

\* no call of execute_plan yet; position counts the task ids of
\* execution_order the loop has gone through, handed is the tasks given to the
\* orchestrator in their order
NoPlanner ==
    [running |-> FALSE, called |-> FALSE,
     plan |-> [tasks |-> << >>, execution_order |-> << >>],
     position |-> 0, results |-> << >>, handed |-> << >>]

\* all(d in results for d in dependencies)
deps_satisfied(results, dependencies) ==
    \A d \in dependencies : d \in DOMAIN results

\* results[task_id] = value
set_result(results, task_id, value) ==
    [k \in DOMAIN results \cup {task_id} |-> IF k = task_id THEN value ELSE results[k]]

\* execute_plan up to its loop: results = {}
execute_plan(plan) ==
    /\ ~planner.running
    /\ planner' = [running |-> TRUE, called |-> TRUE, plan |-> plan, position |-> 0,
                   results |-> << >>, handed |-> << >>]
    /\ UNCHANGED << execVars, webVars, orchestrator, predictor, sessions, limiter >>

\* one turn of the loop of execute_plan
execute_task ==
    /\ planner.running
    /\ planner.position < Len(planner.plan.execution_order)
    /\ LET task_id == planner.plan.execution_order[planner.position + 1]
           task == planner.plan.tasks[task_id]
           next == [planner EXCEPT !.position = @ + 1]
       IN  IF task_id \notin DOMAIN planner.plan.tasks
           THEN planner' = next
           ELSE IF ~deps_satisfied(planner.results, task)
           THEN planner' = [next EXCEPT
                    !.results = set_result(@, task_id, DependenciesNotSatisfied)]
           ELSE \E response \in ProcessResults :
                   planner' = [next EXCEPT
                       !.results = set_result(@, task_id, response),
                       !.handed = Append(@, task_id)]
    /\ UNCHANGED << execVars, webVars, orchestrator, predictor, sessions, limiter >>

\* the return of execute_plan
execute_plan_return ==
    /\ planner.running
    /\ planner.position = Len(planner.plan.execution_order)
    /\ planner' = [planner EXCEPT !.running = FALSE]
    /\ UNCHANGED << execVars, webVars, orchestrator, predictor, sessions, limiter >>


----------------------------------------------------------------------------
(* The program *)

Init ==
    /\ pc = "idle"
    /\ cur = NoWorker
    /\ abandoned = << >>
    /\ sys_stdout = Original
    /\ sys_stderr = Original
    /\ old_stdout = Original
    /\ old_stderr = Original
    /\ capture = EmptySeq
    /\ figs = EmptySeq
    /\ heap = << >>
    /\ dataframes = << >>
    /\ elapsed = 0
    /\ result = NoResult
    /\ last = NoCall
    /\ lastSaved = [f \in Files |-> Dead]
    /\ execution_environment = EmptyDict
    /\ routing = NoRouting
    /\ previous = NoPrevious
    /\ extracted = NoExtract
    /\ handler = NoHandler
    /\ site_packages = {}
    /\ sanitized = NoSanitize
    /\ orchestrator = NoOrchestrator
    /\ predictor = NoPredictor
    /\ sessions = NoSessions
    /\ limiter = NoLimiter
    /\ planner = NoPlanner

\* the requests and threads of the process, its code strings drawn from C,
\* their statements from S, and its file ids from F
\* what execute_code, CodeExecutionService.execute and check_required_packages
\* take from a code string: the verdict of validate, the patterns it matches,
\* its statements before and after sanitize, the packages it asks for
CodeClass(code) ==
    << Validated[code], Matched[code], Len(code), Len(sanitize_statements(code)),
       RequiredOf[code] >>

\* one code string of C for each class: the requests with two code strings of
\* a class start the same execution
Representatives(C) ==
    {CHOOSE code \in C : CodeClass(code) = class : class \in {CodeClass(code) : code \in C}}

ExecRequests == Representatives(ExecCodes)
DataRequests == Representatives(DataCodes)
InstallRequests == Representatives(InstallCodes)
ExitRequests == Representatives(ExitCodes)
NameRequests == Representatives(NameCodes)
ValueRequests == Representatives(ValueCodes)

Requests(C, S, F) ==
    \/ \E code \in C, f \in F, auto_install \in BOOLEAN :
          post_execute_code(code, f, auto_install)
    \/ \E stmt \in S : run_statement(stmt)
    \/ \E i \in DOMAIN abandoned, stmt \in S : run_abandoned(i, stmt)
    \/ Tick
    \/ join_return
    \/ \E code \in C, f \in F : post_execute(code, f)
    \/ service_wait
    \/ service_return

\* code that prints, plots, raises and calls a blocked function; no dataset
\* is stored, so that get_dataframe finds None for every file id
Next == Requests(ExecRequests, ExecStatements, {NoFile})

Spec == Init /\ [][Next]_vars

\* code that changes its df in place, and the routers that save datasets
NextData ==
    \/ Requests(DataRequests, DataStatements, Files \cup {NoFile})
    \/ \E v \in Values, f \in Files : save_dataframe(v, f)

SpecData == Init /\ [][NextData]_vars

\* the requests of the agent router
\* the outcomes of the backend call for a request: it is made only when no
\* rule matches
BackendsOf(request) == IF RuleOf[request] = 0 THEN Backends ELSE {BackendError}

NextRoute ==
    \/ \E request \in RequestTexts :
          \E backend \in BackendsOf(request) : select_best_agent(request, backend)
    \/ \E request \in RequestTexts :
          \E backend \in BackendsOf(request) : smart_analyze(request, backend)

SpecRoute == Init /\ [][NextRoute]_vars

\* the texts handed to extract_code_blocks
NextBlocks == \E text \in ResponseTexts : extract(text)

SpecBlocks == Init /\ [][NextBlocks]_vars

\* code that imports modules of package_mapping
NextInstall == Requests(InstallRequests, InstallStatements, {NoFile})

SpecInstall == Init /\ [][NextInstall]_vars

\* the chat requests, with the threads and waits of the executions they start
NextChat ==
    \/ \E text \in ChatTexts, success \in BOOLEAN, auto_execute \in BOOLEAN :
          chat_with_agent(text, success, NoFile, auto_execute)
    \/ \E text \in ChatTexts, success \in BOOLEAN, auto_execute \in BOOLEAN :
          chat(text, success, NoFile, auto_execute)
    \/ \E stmt \in ChatStatements : run_statement(stmt)
    \/ \E i \in DOMAIN abandoned, stmt \in ChatStatements : run_abandoned(i, stmt)
    \/ Tick
    \/ join_return
    \/ service_wait
    \/ service_return

SpecChat == Init /\ [][NextChat]_vars

\* the requests to CodeExecutor.execute_code with code that leaves by
\* SystemExit, and the threads they start
NextExit ==
    \/ \E code \in ExitRequests, auto_install \in BOOLEAN :
          post_execute_code(code, NoFile, auto_install)
    \/ \E stmt \in ExitStatements : run_statement(stmt)
    \/ \E i \in DOMAIN abandoned, stmt \in ExitStatements : run_abandoned(i, stmt)
    \/ Tick
    \/ join_return

SpecExit == Init /\ [][NextExit]_vars

\* the requests to CodeExecutor.execute_code with code that binds a name,
\* and the threads they start
NextNames ==
    \/ \E code \in NameRequests, auto_install \in BOOLEAN :
          post_execute_code(code, NoFile, auto_install)
    \/ \E stmt \in NameStatements : run_statement(stmt)
    \/ \E i \in DOMAIN abandoned, stmt \in NameStatements : run_abandoned(i, stmt)
    \/ Tick
    \/ join_return

SpecNames == Init /\ [][NextNames]_vars

\* the requests to both executors with code that binds large values
NextValues == Requests(ValueRequests, ValueStatements, {NoFile})

SpecValues == Init /\ [][NextValues]_vars

\* the calls on the MultiAgentOrchestrator
NextOrchestrator ==
    \/ \E cap \in AgentCapabilities : register_agent(cap)
    \/ \E user_request \in OrchestratorRequests : orchestrator_route_request(user_request)

SpecOrchestrator == Init /\ [][NextOrchestrator]_vars

\* the calls of PredictionAgent.predict
NextPredict ==
    \E values \in Series, target_year \in TargetYears, entity_name \in EntityNames :
       predict(YearsOf(values), values, target_year, entity_name)

SpecPredict == Init /\ [][NextPredict]_vars

\* the requests on the sessions
NextSessions ==
    \/ \E session_id \in SessionIds \cup {None}, file_id \in SessionFiles :
          upload_file(session_id, file_id)
    \/ \E session_id \in SessionIds, file_id \in SessionFiles :
          select_active_file(session_id, file_id)
    \/ \E session_id \in SessionIds, file_id \in SessionFiles :
          delete_session_file(file_id, session_id)

SpecSessions == Init /\ [][NextSessions]_vars

\* the calls of the rate limiter as time goes on
NextLimiter ==
    \/ tick
    \/ \E identifier \in Identifiers : is_allowed(identifier)

SpecLimiter == Init /\ [][NextLimiter]_vars

\* the runs of execute_plan
NextPlan ==
    \/ \E plan \in Plans : execute_plan(plan)
    \/ execute_task
    \/ execute_plan_return

SpecPlan == Init /\ [][NextPlan]_vars

\* the code texts handed to sanitize_code
InitSanitize ==
    /\ pc = "idle"
    /\ cur = NoWorker
    /\ abandoned = << >>
    /\ sys_stdout = Original
    /\ sys_stderr = Original
    /\ old_stdout = Original
    /\ old_stderr = Original
    /\ capture = EmptySeq
    /\ figs = EmptySeq
    /\ heap = << >>
    /\ dataframes = << >>
    /\ elapsed = 0
    /\ result = NoResult
    /\ last = NoCall
    /\ lastSaved = [f \in Files |-> Dead]
    /\ execution_environment = EmptyDict
    /\ routing = NoRouting
    /\ previous = NoPrevious
    /\ extracted = NoExtract
    /\ handler = NoHandler
    /\ site_packages = {}
    /\ \E code \in CodeTexts : sanitized = [NoSanitize EXCEPT !.code = code]
    /\ orchestrator = NoOrchestrator
    /\ predictor = NoPredictor
    /\ sessions = NoSessions
    /\ limiter = NoLimiter
    /\ planner = NoPlanner

NextSanitize == sanitize

SpecSanitize == InitSanitize /\ [][NextSanitize]_vars

----------------------------------------------------------------------------
(* Claims *)

\* a call has returned a result that is still the last one
Returned == pc = "idle" /\ last.entry # "none" /\ result # NoResult

\* C1: a code string that matches one of BLOCKED_PATTERNS never reaches the
\* thread of execute_code (neither a running nor an abandoned thread holds
\* such a code), and the call on it ends Rejected without exec: success is
\* false, output is empty and the error is a security violation naming a
\* pattern the code matches.
C1_BlockedCodeRejected ==
    /\ pc = "waiting" => cur.hits = {}
    /\ \A i \in DOMAIN abandoned : abandoned[i].hits = {}
    /\ (last.entry = "execute_code" /\ last.hits # {}) =>
          /\ last.path = "Rejected"
          /\ ~last.ran
          /\ result.success = FALSE
          /\ result.output = EmptySeq
          /\ result.error.kind = "Security violation"
          /\ result.error.pattern \in last.hits

\* an execute_code call on a matching code has been rejected
C1_Witness ==
    pc = "idle" /\ last.entry = "execute_code" /\ last.path = "Rejected" /\ last.hits # {}

\* C2: whenever execute_code returns while the thread of its code is still
\* running, the timeout has elapsed in thread.join and the result has success
\* false and the timeout error carrying the configured timeout.
C2_TimeoutResult ==
    [][(pc = "waiting" /\ pc' = "idle" /\ cur.status = "running") =>
          /\ elapsed = timeout
          /\ result'.success = FALSE
          /\ result'.error.kind = "Execution timed out"
          /\ result'.error.seconds = timeout]_vars

\* a call has timed out and its thread is still running
C2_Witness ==
    /\ pc = "idle" /\ last.entry = "execute_code" /\ last.path = "TimedOut"
    /\ abandoned # << >>

\* C3: what get_dataframe returns for a file is the dataset last saved for it,
\* whatever the running codes did to their df; no namespace holds the stored
\* object itself.
C3_StoredDatasetIsolated ==
    /\ \A f \in Files :
          lastSaved[f] # Dead =>
             LET got == get_dataframe(f)
             IN  got.df # 0 /\ got.heap[got.df] = lastSaved[f]
    /\ \A w \in Threads \cup {cur} :
          w.df # 0 => \A i \in DOMAIN dataframes : dataframes[i].obj # w.df

\* the code of the call in progress has changed its df in place (no dataset
\* is saved while a call is in progress)
C3_Witness ==
    /\ pc # "idle" /\ cur.df # 0
    /\ lastSaved["f1"] # Dead
    /\ heap[cur.df] # lastSaved["f1"]

\* C4: the output of every returned result is at most max_output_size long.
C4_OutputWithinCap ==
    Returned => Len(result.output) <= max_output_size

\* C5: the plots of every returned result are at most max_plot_count.
C5_PlotsWithinCap ==
    Returned => Len(result.plots) <= max_plot_count

\* a call whose code left more than max_plot_count figures open has returned
\* max_plot_count plots
C5_Witness ==
    /\ Returned
    /\ last.drawn > max_plot_count
    /\ Len(result.plots) = max_plot_count

C7_PartialOutputReturned ==
    (Returned /\ last.path \in {"Failed", "TimedOut"}) =>
        /\ Count(result.output, Own) >= Min(last.printed, max_output_size)
        /\ last.path = "TimedOut" =>
              Count(result.plots, Own) >= Min(last.drawn, max_plot_count)

\* C8: whenever no call is in progress, sys.stdout and sys.stderr are the
\* interpreter's own streams.
C8_StreamsRestored ==
    pc = "idle" => sys_stdout = Original /\ sys_stderr = Original

\* a call has failed while the thread of an earlier, timed-out call is still
\* running, and the streams are the interpreter's own
C8_Witness ==
    /\ pc = "idle" /\ last.entry = "execute_code" /\ last.path = "Failed"
    /\ abandoned # << >>
    /\ sys_stdout = Original /\ sys_stderr = Original

\* C9: the output and the plots of a result of execute_code hold nothing
\* produced by the code of another call.
C9_OnlyOwnOutput ==
    (Returned /\ last.entry = "execute_code") =>
        /\ Count(result.output, Foreign) = 0
        /\ Count(result.plots, Foreign) = 0

\* C10: CodeExecutionService.execute never runs a code string that matches a
\* forbidden pattern: it returns success false with a security violation.
C10_ServiceValidates ==
    /\ pc = "svc" => cur.hits = {}
    /\ (Returned /\ last.entry = "service" /\ last.hits # {}) =>
          /\ ~last.ran
          /\ result.success = FALSE
          /\ result.error.kind = "Security violation"

\* C11: a call of CodeExecutionService.execute never runs longer than its
\* timeout: the request thread is never inside the call once more than timeout
\* seconds have passed since the code started.
C11_ServiceWithinTimeout ==
    pc = "svc" => elapsed <= timeout

\* the rules one of whose keywords occurs in the lower-cased text
MatchingRules(text) ==
    {i \in DOMAIN routing_rules : AnyOccurs(routing_rules[i].keywords, lower(text))}

\* C12: the rules are declared in the order sql, prediction, statistics, eda,
\* visualization, insights, and a request in which keywords of one or more
\* rules occur is routed to the agent and confidence of the earliest of them.
C12_FirstRuleWins ==
    /\ [i \in DOMAIN routing_rules |-> routing_rules[i].agent]
          = << "sql", "prediction", "statistics", "eda", "visualization", "insights" >>
    /\ routing.entry # "none" =>
          LET matching == MatchingRules(routing.text)
          IN  matching # {} =>
                 \E i \in matching :
                    /\ \A j \in matching : i <= j
                    /\ routing.agent = routing_rules[i].agent
                    /\ routing.confidence = routing_rules[i].confidence

\* a request with keywords of two rules or more has been routed
C12_Witness ==
    routing.entry # "none" /\ Cardinality(MatchingRules(routing.text)) >= 2

\* C13 (amended): route_request never raises and returns one of the seven
\* agent ids; when no rule matches and the backend call raises, or its answer
\* stripped and lower-cased is not one of the ids, it returns code-generation
\* with confidence 0.5.
C13_RouteNeverRaises ==
    routing.entry # "none" =>
       /\ ~routing.raised
       /\ routing.agent \in valid_agents
       /\ ( /\ MatchingRules(routing.text) = {}
            /\ \/ routing.backend.kind = "raise"
               \/ \A id \in valid_agents :
                     AgentText[id] # lower(strip(routing.backend.text)) )
          => routing.agent = "code-generation" /\ routing.confidence = 50

\* no rule matched and the backend answered with a text that names no agent
C13_Witness ==
    /\ routing.entry # "none"
    /\ MatchingRules(routing.text) = {}
    /\ routing.backend.kind = "text"
    /\ routing.agent = "code-generation" /\ routing.confidence = 50

\* C13 as stated: when no rule matches and the backend call raises or its
\* answer is not one of the ids, the result is code-generation with
\* confidence 0.5.
C13_UnknownAnswerDefaults ==
    ( /\ routing.entry # "none"
      /\ MatchingRules(routing.text) = {}
      /\ \/ routing.backend.kind = "raise"
         \/ \A id \in valid_agents : AgentText[id] # routing.backend.text )
    => routing.agent = "code-generation" /\ routing.confidence = 50

\* C14: two calls of route_request in a row on the same request text return
\* the same agent.
C14_RoutingDeterministic ==
    (routing.entry # "none" /\ previous.agent # "none" /\ routing.text = previous.text)
    => routing.agent = previous.agent

\* the template the specification associates with an agent id
TemplateOfAgent(agent) ==
    CASE agent = "prediction" -> "PREDICTION_PROMPT"
      [] agent = "statistics" -> "STATISTICS_PROMPT"
      [] agent = "eda" -> "EDA_PROMPT"
      [] agent = "visualization" -> "VISUALIZATION_PROMPT"
      [] agent = "insights" -> "INSIGHTS_PROMPT"
      [] OTHER -> "DIRECT_ANSWER_PROMPT"

\* C15: in smart_analyze the template handed to the generation backend is the
\* one of the routed agent.
C15_TemplateOfRoutedAgent ==
    routing.entry = "smart_analyze" => routing.template = TemplateOfAgent(routing.agent)

\* the numbers of the fence-delimiter lines, and the k-th of them
FenceLines(lines) == {i \in DOMAIN lines : is_fence(lines[i])}

NthFence(lines, k) ==
    CHOOSE i \in FenceLines(lines) : Cardinality({j \in FenceLines(lines) : j <= i}) = k

\* C16: extract_code_blocks returns one block per pair of consecutive fence
\* lines (1st with 2nd, 3rd with 4th, ...), its code the lines strictly
\* between the two, joined unchanged and in order; the lines after an unpaired
\* last fence give no block.
C16_BlocksArePairedFences ==
    extracted.called =>
       LET lines  == split(extracted.text)
           blocks == extracted.code_blocks
       IN  /\ Len(blocks) = Cardinality(FenceLines(lines)) \div 2
           /\ \A k \in DOMAIN blocks :
                 blocks[k].code = join(SubSeq(lines, NthFence(lines, 2 * k - 1) + 1,
                                              NthFence(lines, 2 * k) - 1))

\* a text with three fence lines or more, an odd number of them, and a line
\* of code after the last
C16_Witness ==
    /\ extracted.called
    /\ LET lines == split(extracted.text)
           n     == Cardinality(FenceLines(lines))
       IN  /\ n >= 3 /\ n % 2 = 1
           /\ NthFence(lines, n) < Len(lines)
           /\ extracted.code_blocks # << >>
           /\ extracted.code_blocks[1].code # << >>

\* C20: a POST /execute-code request answers 200 after exactly one call of
\* code_executor.execute_code, whatever the installations gave, and its
\* installations list has one entry per required package, in their order.
C20_ExecutionAfterInstalls ==
    handler.entry = "post_execute_code" =>
       /\ handler.status = 200
       /\ handler.calls = 1
       /\ pc = "waiting" \/ last.entry = "execute_code"
       /\ Len(handler.installations) = Len(handler.required)
       /\ \A i \in DOMAIN handler.required :
             handler.installations[i].package = handler.required[i]

\* a request whose installation failed with an exception of subprocess.run
\* has executed its code
C20_Witness ==
    /\ handler.entry = "post_execute_code"
    /\ \E i \in DOMAIN handler.installations :
          /\ ~handler.installations[i].success
          /\ handler.installations[i].message = "Error installing"
    /\ pc = "idle" /\ last.entry = "execute_code" /\ last.ran

\* C17: a chat request executes at most one code block of its response, and
\* the block it executes is the first block of the response.
C17_OnlyFirstBlock ==
    handler.entry \in {"chat_with_agent", "chat"} =>
       /\ Len(handler.executed) <= 1
       /\ handler.executed # << >> => handler.executed[1] = 1

\* C18: sanitize_code is idempotent: sanitize_code of what sanitize_code
\* returned for a code text is that same text.
C18_SanitizeIdempotent == sanitized.called => sanitized.twice = sanitized.once

\* a code text in which both patterns matched has been sanitized
C18_Witness ==
    /\ sanitized.called
    /\ Occurs(read_csv, sanitized.code) /\ Occurs(read_excel, sanitized.code)
    /\ ~Occurs(read_csv, sanitized.once) /\ ~Occurs(read_excel, sanitized.once)
    /\ Occurs(Replacement \o Replacement, sanitized.once)

\* C19: the variables of a result hold no name that was bound in the namespace
\* before the run (the library bindings and df) and no private name; they
\* hold every other name of the namespace.
C19_VariablesExcludePreBound ==
    Returned /\ result.success =>
       /\ DOMAIN result.variables \cap (BaseEnvironment \cup ServiceNamespace \cup {"df"}) = {}
       /\ \A n \in DOMAIN result.variables : ~Private(n)
       /\ DOMAIN result.variables \subseteq UserNames

\* C21: a POST /execute-code request whose code fails validation is rejected
\* before any dependency resolution: it has looked for no required package
\* and has installed none.
C21_ValidationBeforeInstall ==
    handler.entry = "post_execute_code" /\ last.entry = "execute_code"
        /\ last.path = "Rejected" =>
       /\ handler.required = << >>
       /\ handler.installations = << >>

\* C22: execute_code returns success true only if the code ran to its end
\* without raising; code that raised, SystemExit included, gives success
\* false and an error.
C22_SuccessOnlyWithoutRaise ==
    Returned /\ last.entry = "execute_code" /\ last.exited =>
       /\ ~result.success
       /\ result.error # NoError

\* C23: route_request on an empty text, or on a text of white space only,
\* returns the default category code-generation.
C23_EmptyTextDefault ==
    routing.entry # "none" /\ strip(routing.text) = << >> /\ ~routing.raised =>
       routing.agent = "code-generation"

\* C24: the namespace of a call of execute_code holds, when its code starts,
\* no name that the code of an earlier call has bound, and the variables of
\* its result hold no name but those its own code has bound, whether the
\* earlier calls completed, failed or timed out.
C24_NamespaceBuiltAnew ==
    /\ pc = "waiting" => cur.inherited = {}
    /\ pc = "waiting" => DOMAIN execution_environment \subseteq cur.assigned
    /\ Returned /\ last.entry = "execute_code" /\ result.success =>
          DOMAIN result.variables \cap UserNames \subseteq last.assigned

\* a call has completed whose code has bound nothing: the name that an
\* earlier call had left in the namespace is not among its variables, nor is
\* the name that the thread of a timed-out call has bound meanwhile
C24_Witness ==
    /\ Returned /\ last.entry = "execute_code" /\ last.path = "Completed"
    /\ "x" \in last.dropped
    /\ "x" \notin DOMAIN result.variables
    /\ \E i \in DOMAIN abandoned : "x" \in DOMAIN abandoned[i].ns

\* C25: every entry of the variables of a result is bounded: it lists at most
\* ColumnCap column names, and its value string has at most ValueCap
\* characters and an ellipsis of three.
C25_VariableEntriesBounded ==
    Returned /\ result.success =>
       \A n \in DOMAIN result.variables :
          /\ result.variables[n].columns <= ColumnCap
          /\ result.variables[n].value <= ValueCap + 3

\* C26: route_request of MultiAgentOrchestrator returns, after any registrations
\* and earlier calls, the agent that the scoring of the request over the
\* agents registered at that moment gives.
C26_CacheIsOptimization ==
    orchestrator.called /\ ~orchestrator.raised =>
       orchestrator.agent =
          best_agent(orchestrator.capabilities, lower(orchestrator.request))

\* C27: predict returns, after any earlier calls, what an agent without
\* cached predictions computes for the arguments of the call; its entity is
\* the entity_name of the call.
C27_PredictOfArgumentsOnly ==
    predictor.called =>
       /\ predictor.results =
             compute_prediction(predictor.years, predictor.values,
                                predictor.target_year, predictor.entity_name)
       /\ predictor.results.entity = predictor.entity_name

\* C28: the active_file_id of every session is None or one of the files of
\* the session.
C28_ActiveFileIsAFile ==
    \A session_id \in DOMAIN sessions :
       \/ sessions[session_id].active_file_id = None
       \/ Has(sessions[session_id].files, sessions[session_id].active_file_id)

\* C29: a call of is_allowed by an identifier whose bucket is empty is allowed
\* if period / requests seconds have gone since the last allowed request of
\* the identifier, whatever calls were denied in between.
C29_NeverStarves ==
    (/\ limiter.call.called
     /\ limiter.call.tokens = 0
     /\ limiter.call.since * requests >= period)
        => limiter.call.allowed

\* C30: every task execute_plan hands to the orchestrator has all its
\* dependencies among the tasks handed to the orchestrator earlier in the
\* same run.
C30_DependenciesHandedEarlier ==
    \A k \in DOMAIN planner.handed :
       \A d \in planner.plan.tasks[planner.handed[k]] :
          \E j \in 1 .. (k - 1) : planner.handed[j] = d

====
